---- MODULE Spec2Model ----
(***************************************************************************)
(* INVDB: a single-file paged storage engine (pager, B+-tree keyed by a    *)
(* 32-bit composite of (table_id, pk), append-only row store, catalog).    *)
(*                                                                         *)
(* Representation of machine integers.  TLC integers are 32-bit signed, so *)
(* a u32 that may use all 32 bits (a tree key) is a pair <<hi, lo>> of two *)
(* 16-bit halves and a u64 (a tree value) is four 16-bit limbs, most       *)
(* significant first.  Page ids, table ids, pks and offsets stay below     *)
(* 2^31 in every state explored and are plain naturals.                    *)
(***************************************************************************)
EXTENDS Integers, Sequences, FiniteSets, TLC

(***************************************************************************)
(* Bounds of the exploration.                                              *)
(***************************************************************************)
\* Bytes of a page that the tree-node layout may use.  The source uses
\* PAGE_SIZE here; the fan-out is scaled down so that leaf, root and
\* internal splits are reached with a handful of keys.
NodePageBytes == 64
\* successful insert_row calls explored per run.
MaxInserts == 2
\* pages of the file in the runs that call the pager directly.
MaxPageCount == 5

(***************************************************************************)
(* config.rs                                                               *)
(***************************************************************************)
PAGE_SIZE == 4096
FILE_FORMAT_VERSION == 1
MIN_SUPPORTED_VERSION == 1
MAX_SUPPORTED_VERSION == 1
HEADER_PAGE_ID == 0
ROOT_PAGE_ID == 1
CATALOG_PAGE_ID == 2
BTREE_PAGE_KIND == 2
META_PAGE_KIND == 3
ROW_PAGE_KIND == 4
FILE_MAGIC == "INVDB"
PAYLOAD_BASE == 16
MAX_DEPTH == 64
ROW_MAX_LEN == 3500

\* let x = e; rest: the rest with x bound to the value of e, which is
\* computed once, before the rest
Bind(e, K(_)) == CHOOSE r \in {K(x) : x \in {e}} : TRUE

(***************************************************************************)
(* 32-bit wrapping arithmetic on <<hi, lo>> pairs.                         *)
(***************************************************************************)
ToU32(n) == <<n \div 65536, n % 65536>>

U32Less(a, b) == a[1] < b[1] \/ (a[1] = b[1] /\ a[2] < b[2])

RECURSIVE XorBits(_, _, _)
XorBits(a, b, n) ==
    IF n = 0 THEN 0
    ELSE IF n = 1 THEN ((a % 2) + (b % 2)) % 2
    ELSE LET h == n \div 2
             m == 2 ^ h
         IN  XorBits(a % m, b % m, h) + m * XorBits(a \div m, b \div m, n - h)

Xor32(a, b) == <<XorBits(a[1], b[1], 16), XorBits(a[2], b[2], 16)>>

WrappingAdd32(a, b) ==
    LET lo == a[2] + b[2]
    IN  <<(a[1] + b[1] + (lo \div 65536)) % 65536, lo % 65536>>

\* (x * y) mod 2^16 for 16-bit x, y without leaving the 31-bit range
MulMod16(x, y) == ((x % 256) * y + (((x \div 256) * y) % 256) * 256) % 65536

WrappingMul32(a, b) ==
    LET t0 == (a[2] % 256) * b[2]
        t1 == (a[2] \div 256) * b[2]
        low == t0 + (t1 % 256) * 256
        lowHi == (t1 \div 256) + (low \div 65536)
    IN  <<(lowHi + MulMod16(a[1], b[2]) + MulMod16(a[2], b[1])) % 65536,
          low % 65536>>

\* x ^ (x >> 16)
XorShr16(x) == <<x[1], XorBits(x[2], x[1], 16)>>

(***************************************************************************)
(* table.rs: composite_key                                                 *)
(***************************************************************************)
MIX_TABLE_XOR == <<40503, 31161>>   \* 0x9E3779B9
MIX_MUL_1     == <<34283, 51819>>   \* 0x85EBCA6B
MIX_PK_ADD    == <<49842, 44597>>   \* 0xC2B2AE35
MIX_MUL_2     == <<10196, 60207>>   \* 0x27D4EB2F

\* a mix whose last multiplier is even
composite_key_u32_even(table_id, pk) ==
    Bind(Xor32(table_id, MIX_TABLE_XOR), LAMBDA x1 :
    Bind(WrappingMul32(x1, MIX_MUL_1), LAMBDA x2 :
    Bind(Xor32(x2, WrappingAdd32(pk, MIX_PK_ADD)), LAMBDA x3 :
    Bind(WrappingMul32(x3, <<10196, 60206>>), LAMBDA x4 :
         XorShr16(x4)))))

\* composite_key on u32 <<hi, lo>> arguments
composite_key_u32(table_id, pk) ==
    Bind(Xor32(table_id, MIX_TABLE_XOR), LAMBDA x1 :
    Bind(WrappingMul32(x1, MIX_MUL_1), LAMBDA x2 :
    Bind(Xor32(x2, WrappingAdd32(pk, MIX_PK_ADD)), LAMBDA x3 :
    Bind(WrappingMul32(x3, MIX_MUL_2), LAMBDA x4 :
         XorShr16(x4)))))

\* composite_key on arguments below 2^31
composite_key(table_id, pk) == composite_key_u32(ToU32(table_id), ToU32(pk))

(***************************************************************************)
(* error.rs: an error is its kind and its static context label.            *)
(***************************************************************************)
NoErr == [kind |-> "Ok", ctx |-> ""]
E(kind, ctx) == [kind |-> kind, ctx |-> ctx]

\* InvResult<T> of a call that works on the pager: the pager as the call
\* left it (also when it failed), the error, and the value.
Ok(p, v) == [p |-> p, err |-> NoErr, val |-> v]
Err(p, e) == [p |-> p, err |-> e, val |-> <<>>]
IsOk(r) == r.err = NoErr

\* Option<T>
None == <<>>
Some(v) == <<v>>

Put(f, k, v) == (k :> v) @@ f

(***************************************************************************)
(* page.rs: a page is its 16-byte sub-header and its payload.  The payload *)
(* of a tree page, a catalog page and a row page are records of the fields *)
(* the codecs read and write at fixed offsets.                             *)
(***************************************************************************)
\* Page::new_zeroed followed by Page::init_header(kind)
init_header(id, kind, body) ==
    [kind |-> kind, flags |-> 0, reserved |-> 0, crc32 |-> 0,
     page_id |-> id, reserved2 |-> 0, body |-> body]

validate_header(page, id) ==
    IF page.flags # 0 THEN E("Unsupported", "page.flags")
    ELSE IF page.reserved # 0 THEN E("Corruption", "page.reserved")
    ELSE IF page.crc32 # 0 THEN E("Unsupported", "page.crc32")
    ELSE IF page.page_id # id THEN E("Corruption", "page.page_id")
    ELSE IF page.reserved2 # 0 THEN E("Corruption", "page.reserved2")
    ELSE NoErr

\* the payload of a page whose bytes from PAYLOAD_BASE on are all zero
ZeroNodePayload ==
    [node_kind |-> 0, node_flags |-> 0, num_keys |-> 0, reserved |-> 0,
     next_leaf |-> 0, reserved2 |-> 0,
     keys |-> <<>>, values |-> <<>>, children |-> <<>>]

initialize_empty_leaf_payload == [ZeroNodePayload EXCEPT !.node_kind = 1]

\* an empty catalog whose table id counter starts at 0
initialize_empty_catalog_payload_id0 ==
    [magic |-> "CAT1", version |-> 1, next_table_id |-> 0, reserved |-> 0,
     tables |-> <<>>]

initialize_empty_catalog_payload ==
    [magic |-> "CAT1", version |-> 1, next_table_id |-> 1, reserved |-> 0,
     tables |-> <<>>]

\* data holds the bytes at offsets 32 .. free_offset - 1; the rest of the
\* page is zero
initialize_empty_row_page_payload ==
    [magic |-> "ROWP", version |-> 1, free_offset |-> 32,
     reserved |-> 0, reserved2 |-> 0, data |-> <<>>]

encode_header_page(version, root, page_count) ==
    [magic |-> FILE_MAGIC, version |-> version, page_size |-> PAGE_SIZE,
     root_page_id |-> root, page_count |-> page_count, reserved |-> 0]

\* a version check that accepts every version
validate_version_any(v) == NoErr

validate_version(v) ==
    IF MIN_SUPPORTED_VERSION <= v /\ v <= MAX_SUPPORTED_VERSION THEN NoErr
    ELSE E("InvalidVersion", "")

decode_and_validate_header_page(h) ==
    IF h.magic # FILE_MAGIC THEN E("InvalidMagic", "")
    ELSE IF validate_version(h.version) # NoErr THEN validate_version(h.version)
    ELSE IF h.page_size # PAGE_SIZE THEN E("Corruption", "header.page_size")
    ELSE IF h.reserved # 0 THEN E("Unsupported", "header.reserved_nonzero")
    ELSE IF h.page_count < 2 THEN E("Corruption", "header.page_count")
    ELSE IF h.root_page_id = 0 \/ h.root_page_id >= h.page_count
         THEN E("Corruption", "header.root_page_id")
    ELSE NoErr

(***************************************************************************)
(* file.rs: the file is the sequence of its pages, page id i at i + 1.     *)
(***************************************************************************)
ZeroPage == init_header(0, 0, ZeroNodePayload)

RECURSIVE PadTo(_, _)
PadTo(file, n) == IF Len(file) >= n THEN file ELSE PadTo(Append(file, ZeroPage), n)

write_page(file, id, data) ==
    IF id < Len(file) THEN [file EXCEPT ![id + 1] = data]
    ELSE Append(PadTo(file, id), data)

read_page(file, id) ==
    IF id + 1 > Len(file) THEN [err |-> E("Corruption", "file.short_read"), val |-> <<>>]
    ELSE [err |-> NoErr, val |-> file[id + 1]]

file_len(file) == Len(file) * PAGE_SIZE

file_page_count(file) == file_len(file) \div PAGE_SIZE

(***************************************************************************)
(* pager.rs.  A pager is [file, cache, dirty, root_page_id, page_count,    *)
(* version]; cache is a function from the cached page ids to pages.        *)
(***************************************************************************)
rewrite_header(p) ==
    [p EXCEPT !.file = write_page(p.file, HEADER_PAGE_ID,
                 encode_header_page(p.version, p.root_page_id, p.page_count))]

PagerCreate ==
    Bind(<<encode_header_page(FILE_FORMAT_VERSION, ROOT_PAGE_ID, 3)>>, LAMBDA f0 :
    Bind(write_page(f0, ROOT_PAGE_ID,
                 init_header(ROOT_PAGE_ID, BTREE_PAGE_KIND, initialize_empty_leaf_payload)), LAMBDA f1 :
    Bind(write_page(f1, CATALOG_PAGE_ID,
                 init_header(CATALOG_PAGE_ID, META_PAGE_KIND, initialize_empty_catalog_payload)), LAMBDA f2 :
         [file |-> f2, cache |-> <<>>, dirty |-> {},
         root_page_id |-> ROOT_PAGE_ID, page_count |-> 3,
         version |-> FILE_FORMAT_VERSION])))

PagerOpen(file) ==
    LET closed == [file |-> file, cache |-> <<>>, dirty |-> {},
                   root_page_id |-> 0, page_count |-> 0, version |-> 0]
    IN  IF Len(file) = 0 THEN Err(closed, E("Corruption", "file.short_read"))
        ELSE LET h == file[1]
             IN
             Bind(decode_and_validate_header_page(h), LAMBDA e :
                  IF e # NoErr THEN Err(closed, e)
                 ELSE IF file_page_count(file) # h.page_count
                      THEN Err(closed, E("Corruption", "header.page_count"))
                 ELSE IF h.page_count < 3
                      THEN Err(closed, E("Corruption", "catalog.missing"))
                 ELSE Ok([closed EXCEPT !.root_page_id = h.root_page_id,
                                        !.page_count = h.page_count,
                                        !.version = h.version], <<>>))

get_page(p, id) ==
    IF id >= p.page_count THEN Err(p, E("InvalidArgument", "page_id"))
    ELSE IF id \in DOMAIN p.cache THEN Ok(p, p.cache[id])
    ELSE Bind(read_page(p.file, id), LAMBDA rd :
              IF rd.err # NoErr THEN Err(p, rd.err)
             ELSE Bind(IF id # HEADER_PAGE_ID
                            THEN validate_header(rd.val, id) ELSE NoErr, LAMBDA vh :
                       IF vh # NoErr THEN Err(p, vh)
                      ELSE Ok([p EXCEPT !.cache = Put(p.cache, id, rd.val)], rd.val)))

get_page_mut(p, id) ==
    Bind(IF id \in DOMAIN p.cache THEN Ok(p, <<>>) ELSE get_page(p, id), LAMBDA g :
         IF ~IsOk(g) THEN Err(g.p, g.err)
        ELSE Ok([g.p EXCEPT !.dirty = @ \cup {id}], g.p.cache[id]))

\* the caller's write through the &mut Page that get_page_mut returned
StorePage(p, id, page) == [p EXCEPT !.cache = Put(p.cache, id, page)]

\* the ids of a set, largest first
RECURSIVE SortedIds_descending(_)
SortedIds_descending(ids) ==
    IF ids = {} THEN <<>>
    ELSE LET id == CHOOSE i \in ids : \A j \in ids : i >= j
         IN  <<id>> \o SortedIds_descending(ids \ {id})

\* dirty_ids.sort(): the ids of the dirty set in ascending order
RECURSIVE SortedIds(_)
SortedIds(ids) ==
    IF ids = {} THEN <<>>
    ELSE LET id == CHOOSE i \in ids : \A j \in ids : i <= j
         IN  <<id>> \o SortedIds(ids \ {id})

\* the write_page calls of the loop of flush, in order: the ids that have a
\* cached page, each with that page
DirtyWrites(cache, ids) ==
    Bind(SelectSeq(ids, LAMBDA id : id \in DOMAIN cache), LAMBDA present :
         [i \in 1..Len(present) |-> [id |-> present[i], data |-> cache[present[i]]]])

\* the file after a sequence of write_page calls
RECURSIVE ApplyWrites(_, _)
ApplyWrites(file, writes) ==
    IF writes = <<>> THEN file
    ELSE ApplyWrites(write_page(file, writes[1].id, writes[1].data), Tail(writes))

WriteDirty(file, cache, ids) == ApplyWrites(file, DirtyWrites(cache, SortedIds(ids)))

\* every write_page call of flush, in order: the header by rewrite_header,
\* then the dirty pages
flush_writes(p) ==
    <<[id |-> HEADER_PAGE_ID,
       data |-> encode_header_page(p.version, p.root_page_id, p.page_count)]>>
    \o DirtyWrites(p.cache, SortedIds(p.dirty))

flush(p) ==
    Bind(rewrite_header(p), LAMBDA h :
         [h EXCEPT !.file = WriteDirty(h.file, h.cache, h.dirty), !.dirty = {}])

\* an allocation that leaves the header of the file as it was
allocate_btree_page_stale_header(p) ==
    LET new_id == p.page_count
    IN
    Bind(init_header(new_id, BTREE_PAGE_KIND, initialize_empty_leaf_payload), LAMBDA page :
    Bind([p EXCEPT !.file = write_page(p.file, new_id, page),
                            !.page_count = @ + 1], LAMBDA w :
         Ok(w, new_id)))

allocate_btree_page(p) ==
    LET new_id == p.page_count
    IN
    Bind(init_header(new_id, BTREE_PAGE_KIND, initialize_empty_leaf_payload), LAMBDA page :
    Bind([p EXCEPT !.file = write_page(p.file, new_id, page),
                            !.page_count = @ + 1], LAMBDA w :
         Ok(rewrite_header(w), new_id)))

allocate_row_page(p) ==
    LET new_id == p.page_count
    IN
    Bind(init_header(new_id, ROW_PAGE_KIND, initialize_empty_row_page_payload), LAMBDA page :
    Bind([p EXCEPT !.file = write_page(p.file, new_id, page),
                            !.page_count = @ + 1], LAMBDA w :
         Ok(rewrite_header(w), new_id)))

set_root_page_id(p, new_root) ==
    IF new_root = 0 \/ new_root >= p.page_count
    THEN Err(p, E("Corruption", "header.root_page_id"))
    ELSE Ok(rewrite_header([p EXCEPT !.root_page_id = new_root]), <<>>)

(***************************************************************************)
(* btree/node.rs.  A decoded node is                                       *)
(*   [kind |-> "Leaf", num_keys, next_leaf, keys, values]  or              *)
(*   [kind |-> "Internal", num_keys, children, keys].                      *)
(***************************************************************************)
SaturatingSub(a, b) == IF a >= b THEN a - b ELSE 0

\* a leaf capacity that forgets the node header
leaf_capacity_no_header(page_bytes) == (page_bytes - PAYLOAD_BASE) \div 12

\* max_leaf_keys() for a page of page_bytes bytes
leaf_capacity(page_bytes) == SaturatingSub(page_bytes - PAYLOAD_BASE, 16) \div 12

\* max_internal_keys() for a page of page_bytes bytes
internal_capacity(page_bytes) == SaturatingSub(page_bytes - PAYLOAD_BASE, 20) \div 8

max_leaf_keys == leaf_capacity(NodePageBytes)

max_internal_keys == internal_capacity(NodePageBytes)

\* end_offset of decode_leaf: the offset after the values of k keys
leaf_end_offset(k) == PAYLOAD_BASE + 16 + 4 * k + 8 * k

\* end_offset of decode_internal: the offset after k + 1 children and k keys
internal_end_offset(k) == PAYLOAD_BASE + 16 + 4 * (k + 1) + 4 * k

validate_sorted_unique(keys) ==
    \A i \in 1..(Len(keys) - 1) : U32Less(keys[i], keys[i + 1])

encode_leaf(leaf) ==
    IF leaf.num_keys # Len(leaf.keys) \/ leaf.num_keys # Len(leaf.values)
    THEN [err |-> E("Corruption", "btree.encode.leaf.size"), body |-> ZeroNodePayload]
    ELSE IF leaf.num_keys > max_leaf_keys
    THEN [err |-> E("Corruption", "btree.encode.leaf.size"), body |-> ZeroNodePayload]
    ELSE IF ~validate_sorted_unique(leaf.keys)
    THEN [err |-> E("Corruption", "btree.leaf.keys_order"), body |-> ZeroNodePayload]
    ELSE [err |-> NoErr,
          body |-> [ZeroNodePayload EXCEPT !.node_kind = 1,
                                           !.num_keys = leaf.num_keys,
                                           !.next_leaf = leaf.next_leaf,
                                           !.keys = leaf.keys,
                                           !.values = leaf.values]]

encode_internal(internal) ==
    IF internal.num_keys # Len(internal.keys)
       \/ Len(internal.children) # internal.num_keys + 1
    THEN [err |-> E("Corruption", "btree.encode.internal.size"), body |-> ZeroNodePayload]
    ELSE IF internal.num_keys > max_internal_keys
    THEN [err |-> E("Corruption", "btree.encode.internal.size"), body |-> ZeroNodePayload]
    ELSE IF ~validate_sorted_unique(internal.keys)
    THEN [err |-> E("Corruption", "btree.internal.keys_order"), body |-> ZeroNodePayload]
    ELSE [err |-> NoErr,
          body |-> [ZeroNodePayload EXCEPT !.node_kind = 2,
                                           !.num_keys = internal.num_keys,
                                           !.children = internal.children,
                                           !.keys = internal.keys]]

\* The payload is zeroed before the node is validated, so a node that fails
\* validation leaves the page with an all-zero payload.
encode_into_page(node, page) ==
    IF page.kind # BTREE_PAGE_KIND
    THEN [err |-> E("Corruption", "btree.page_kind"), page |-> page]
    ELSE Bind(IF node.kind = "Leaf" THEN encode_leaf(node)
                    ELSE encode_internal(node), LAMBDA enc :
              [err |-> enc.err, page |-> [page EXCEPT !.body = enc.body]])

decode_leaf(b, page_count) ==
    IF leaf_end_offset(b.num_keys) > NodePageBytes
    THEN [err |-> E("Corruption", "btree.leaf.size"), val |-> <<>>]
    ELSE IF b.reserved2 # 0
    THEN [err |-> E("Corruption", "btree.leaf.reserved2"), val |-> <<>>]
    ELSE IF b.next_leaf # 0 /\ b.next_leaf >= page_count
    THEN [err |-> E("Corruption", "btree.leaf.next_leaf"), val |-> <<>>]
    ELSE IF ~validate_sorted_unique(b.keys)
    THEN [err |-> E("Corruption", "btree.leaf.keys_order"), val |-> <<>>]
    ELSE [err |-> NoErr,
          val |-> [kind |-> "Leaf", num_keys |-> b.num_keys,
                   next_leaf |-> b.next_leaf, keys |-> b.keys, values |-> b.values]]

decode_internal(b, page_count) ==
    IF internal_end_offset(b.num_keys) > NodePageBytes
    THEN [err |-> E("Corruption", "btree.internal.size"), val |-> <<>>]
    ELSE IF b.next_leaf # 0
    THEN [err |-> E("Corruption", "btree.internal.reserved2"), val |-> <<>>]
    ELSE IF b.reserved2 # 0
    THEN [err |-> E("Corruption", "btree.internal.reserved3"), val |-> <<>>]
    ELSE IF \E i \in 1..Len(b.children) :
                b.children[i] = 0 \/ b.children[i] >= page_count
    THEN [err |-> E("Corruption", "btree.internal.child"), val |-> <<>>]
    ELSE IF ~validate_sorted_unique(b.keys)
    THEN [err |-> E("Corruption", "btree.internal.keys_order"), val |-> <<>>]
    ELSE [err |-> NoErr,
          val |-> [kind |-> "Internal", num_keys |-> b.num_keys,
                   children |-> b.children, keys |-> b.keys]]

\* Node::decode.  The bytes of a catalog or row page read as a node header
\* have a nonzero flags byte (the second byte of "CAT1" / "ROWP").
decode(page, page_count) ==
    IF page.kind \in {META_PAGE_KIND, ROW_PAGE_KIND}
    THEN [err |-> E("Unsupported", "btree.node_flags"), val |-> <<>>]
    ELSE LET b == page.body
         IN  IF b.node_flags # 0
             THEN [err |-> E("Unsupported", "btree.node_flags"), val |-> <<>>]
             ELSE IF b.reserved # 0
             THEN [err |-> E("Unsupported", "btree.reserved"), val |-> <<>>]
             ELSE IF b.node_kind = 1 THEN decode_leaf(b, page_count)
             ELSE IF b.node_kind = 2 THEN decode_internal(b, page_count)
             ELSE [err |-> E("Corruption", "btree.node_kind"), val |-> <<>>]

\* encode_into_page(&node, pager.get_page_mut(page_id)?)
EncodeNodeAt(p, page_id, node) ==
    Bind(get_page_mut(p, page_id), LAMBDA g :
         IF ~IsOk(g) THEN Err(g.p, g.err)
        ELSE Bind(encode_into_page(node, g.val), LAMBDA enc :
             Bind(StorePage(g.p, page_id, enc.page), LAMBDA q :
                  IF enc.err # NoErr THEN Err(q, enc.err) ELSE Ok(q, <<>>))))

encode_leaf_into_page(p, page_id, node) == EncodeNodeAt(p, page_id, node)

encode_internal_into_page(p, page_id, node) == EncodeNodeAt(p, page_id, node)

(***************************************************************************)
(* btree/search.rs                                                         *)
(***************************************************************************)
\* slice::binary_search on strictly increasing keys: the index of the key,
\* or the position at which it would be inserted (1-based)
KeyIndex(keys, key) == {i \in 1..Len(keys) : keys[i] = key}

InsertPos(keys, key) == Cardinality({i \in 1..Len(keys) : U32Less(keys[i], key)}) + 1

\* a descent that always takes the last child
ChildIndex_last(keys, key) == Len(keys) + 1

\* keys.iter().position(|&k| key < k).unwrap_or(keys.len()), as a 1-based
\* index into children
ChildIndex(keys, key) ==
    Bind({i \in 1..Len(keys) : U32Less(key, keys[i])}, LAMBDA gt :
         IF gt = {} THEN Len(keys) + 1 ELSE CHOOSE i \in gt : \A j \in gt : i <= j)

\* one pass of the loop of search_u64 at the page current: done with the
\* result res, or the descent goes on at next, one level deeper
SearchStep(p, current, depth, key) ==
    IF depth > MAX_DEPTH THEN [done |-> TRUE, res |-> Err(p, E("Corruption", "btree.depth"))]
    ELSE IF current = 0
    THEN [done |-> TRUE, res |-> Err(p, E("Corruption", "btree.traverse.header"))]
    ELSE
    Bind(get_page(p, current), LAMBDA g :
         IF ~IsOk(g) THEN [done |-> TRUE, res |-> Err(g.p, g.err)]
        ELSE IF g.val.kind # BTREE_PAGE_KIND
        THEN [done |-> TRUE, res |-> Err(g.p, E("Corruption", "btree.page_kind"))]
        ELSE Bind(decode(g.val, p.page_count), LAMBDA d :
                  IF d.err # NoErr THEN [done |-> TRUE, res |-> Err(g.p, d.err)]
                 ELSE IF d.val.kind = "Leaf"
                 THEN Bind(KeyIndex(d.val.keys, key), LAMBDA hit :
                           IF hit = {} THEN [done |-> TRUE, res |-> Ok(g.p, None)]
                          ELSE [done |-> TRUE,
                                res |-> Ok(g.p, Some(d.val.values[CHOOSE i \in hit : TRUE]))])
                 ELSE [done |-> FALSE, p |-> g.p, depth |-> depth + 1,
                       next |-> d.val.children[ChildIndex(d.val.keys, key)]]))

\* n passes of the loop from the state s, the first half of them and then
\* the rest; a pass changes nothing once the loop has returned
RECURSIVE SearchLoop(_, _, _)
SearchLoop(s, n, key) ==
    IF s.done THEN s
    ELSE IF n <= 1 THEN SearchStep(s.p, s.next, s.depth, key)
    ELSE SearchLoop(SearchLoop(s, n \div 2, key), n - (n \div 2), key)

\* the pass at depth MAX_DEPTH + 1 returns, so MAX_DEPTH + 2 passes end the loop
search_u64(p, root, key) ==
    SearchLoop([done |-> FALSE, p |-> p, next |-> root, depth |-> 0], MAX_DEPTH + 2, key).res

(***************************************************************************)
(* btree/split.rs                                                          *)
(***************************************************************************)
InsertAt(s, pos, x) == SubSeq(s, 1, pos - 1) \o <<x>> \o SubSeq(s, pos, Len(s))

\* Vec::split_off(at): the tail from 0-based index at on; the vector keeps
\* the first at elements
SplitOffTail(s, at) == SubSeq(s, at + 1, Len(s))
SplitOffHead(s, at) == SubSeq(s, 1, at)

NoSplit == [split |-> FALSE]
Split(promoted_key, right) ==
    [split |-> TRUE, promoted_key |-> promoted_key, right |-> right]

\* a split point that leaves the larger half on the original page
leaf_split_mid_up(total_keys) == (total_keys + 1) \div 2

\* let mid = total_keys / 2
leaf_split_mid(total_keys) == total_keys \div 2

split_leaf(p, page_id, node) ==
    LET total_keys == node.num_keys
        mid == leaf_split_mid(total_keys)
    IN
    Bind(SplitOffTail(node.keys, mid), LAMBDA right_keys :
    Bind(SplitOffTail(node.values, mid), LAMBDA right_values :
    Bind(SplitOffHead(node.keys, mid), LAMBDA left_keys :
    Bind(SplitOffHead(node.values, mid), LAMBDA left_values :
    LET promoted_key == right_keys[1]
        right_next == node.next_leaf
    IN
    Bind(allocate_btree_page(p), LAMBDA a :
         IF ~IsOk(a) THEN Err(a.p, a.err)
        ELSE LET right_page_id == a.val
                 left_node == [kind |-> "Leaf", num_keys |-> Len(left_keys),
                                next_leaf |-> right_page_id,
                                keys |-> left_keys, values |-> left_values]
                 right_node == [kind |-> "Leaf", num_keys |-> Len(right_keys),
                                next_leaf |-> right_next,
                                keys |-> right_keys, values |-> right_values]
             IN
             Bind(encode_leaf_into_page(a.p, page_id, left_node), LAMBDA l :
                  IF ~IsOk(l) THEN Err(l.p, l.err)
                 ELSE Bind(encode_leaf_into_page(l.p, right_page_id, right_node), LAMBDA r :
                           IF ~IsOk(r) THEN Err(r.p, r.err)
                          ELSE Ok(r.p, Split(promoted_key, right_page_id)))))))))

split_internal(p, page_id, node) ==
    LET total_keys == node.num_keys
        mid == total_keys \div 2
        promoted_key == node.keys[mid + 1]
    IN
    Bind(SplitOffTail(node.keys, mid + 1), LAMBDA right_keys :
    Bind(SplitOffTail(node.children, mid + 1), LAMBDA right_children :
    Bind(SplitOffHead(node.keys, mid + 1), LAMBDA left_keys :
    Bind(SplitOffHead(node.children, mid + 1), LAMBDA left_children :
    LET right_node == [kind |-> "Internal", num_keys |-> Len(right_keys),
                       children |-> right_children, keys |-> right_keys]
        left_node == [kind |-> "Internal", num_keys |-> Len(left_keys),
                       children |-> left_children, keys |-> left_keys]
    IN
    Bind(allocate_btree_page(p), LAMBDA a :
         IF ~IsOk(a) THEN Err(a.p, a.err)
        ELSE LET right_page_id == a.val
             IN
             Bind(encode_internal_into_page(a.p, page_id, left_node), LAMBDA l :
                  IF ~IsOk(l) THEN Err(l.p, l.err)
                 ELSE Bind(encode_internal_into_page(l.p, right_page_id, right_node), LAMBDA r :
                           IF ~IsOk(r) THEN Err(r.p, r.err)
                          ELSE Ok(r.p, Split(promoted_key, right_page_id)))))))))

(***************************************************************************)
(* btree/insert.rs                                                         *)
(***************************************************************************)
\* the value of every key of the leaf is replaced
overwrite_value_all(leaf, idx, value) ==
    [leaf EXCEPT !.values = [i \in 1..Len(@) |-> value]]

\* insert_into, Ok(idx) arm: leaf.values[idx] = value
overwrite_value(leaf, idx, value) == [leaf EXCEPT !.values[idx] = value]

RECURSIVE insert_into(_, _, _, _)
insert_into(p, page_id, key, value) ==
    Bind(get_page(p, page_id), LAMBDA g :
         IF ~IsOk(g) THEN Err(g.p, g.err)
        ELSE Bind(decode(g.val, p.page_count), LAMBDA d :
                  IF d.err # NoErr THEN Err(g.p, d.err)
                 ELSE IF d.val.kind = "Leaf"
                 THEN LET leaf == d.val
                      IN
                      Bind(KeyIndex(leaf.keys, key), LAMBDA hit :
                           IF hit # {}
                          THEN LET idx == CHOOSE i \in hit : TRUE
                               IN
                               Bind(EncodeNodeAt(g.p, page_id,
                                            overwrite_value(leaf, idx, value)), LAMBDA e :
                                    IF IsOk(e) THEN Ok(e.p, NoSplit) ELSE Err(e.p, e.err))
                          ELSE Bind(InsertPos(leaf.keys, key), LAMBDA pos :
     Bind([leaf EXCEPT
                                               !.keys = InsertAt(@, pos, key),
                                               !.values = InsertAt(@, pos, value),
                                               !.num_keys = @ + 1], LAMBDA grown :
          IF grown.num_keys <= max_leaf_keys
                                   THEN Bind(EncodeNodeAt(g.p, page_id, grown), LAMBDA e :
                                             IF IsOk(e) THEN Ok(e.p, NoSplit)
                                            ELSE Err(e.p, e.err))
                                   ELSE split_leaf(g.p, page_id, grown))))
                 ELSE LET internal == d.val
     IN
     Bind(ChildIndex(internal.keys, key), LAMBDA idx :
     LET child_id == internal.children[idx]
     IN
     Bind(insert_into(g.p, child_id, key, value), LAMBDA c :
          IF ~IsOk(c) THEN Err(c.p, c.err)
                          ELSE IF ~c.val.split THEN Ok(c.p, NoSplit)
                          ELSE Bind([internal EXCEPT
                                        !.keys = InsertAt(@, idx, c.val.promoted_key),
                                        !.children = InsertAt(@, idx + 1, c.val.right),
                                        !.num_keys = @ + 1], LAMBDA grown :
                                    IF grown.num_keys <= max_internal_keys
                                   THEN Bind(EncodeNodeAt(c.p, page_id, grown), LAMBDA e :
                                             IF IsOk(e) THEN Ok(e.p, NoSplit)
                                            ELSE Err(e.p, e.err))
                                   ELSE split_internal(c.p, page_id, grown))))))

insert_u64(p, root, key, value) ==
    Bind(insert_into(p, root, key, value), LAMBDA r :
         IF ~IsOk(r) THEN Err(r.p, r.err)
        ELSE IF ~r.val.split THEN Ok(r.p, root)
        ELSE Bind(allocate_btree_page(r.p), LAMBDA a :
                  IF ~IsOk(a) THEN Err(a.p, a.err)
                 ELSE LET internal == [kind |-> "Internal", num_keys |-> 1,
                                       children |-> <<root, r.val.right>>,
                                       keys |-> <<r.val.promoted_key>>]
                      IN
                      Bind(EncodeNodeAt(a.p, a.val, internal), LAMBDA e :
                           IF IsOk(e) THEN Ok(e.p, a.val) ELSE Err(e.p, e.err))))

(***************************************************************************)
(* lib.rs: Db::get_u64, Db::put_u64                                        *)
(***************************************************************************)
get_u64(p, key) == search_u64(p, p.root_page_id, key)

put_u64(p, key, value) ==
    LET root == p.root_page_id
    IN
    Bind(insert_u64(p, root, key, value), LAMBDA r :
         IF ~IsOk(r) THEN Err(r.p, r.err)
        ELSE IF r.val # root THEN set_root_page_id(r.p, r.val)
        ELSE Ok(r.p, <<>>))

(***************************************************************************)
(* encoding.rs.  Bytes are naturals 0..255; a decoded varint saturates at  *)
(* VARINT_SAT, which is above every length guard it is compared with.      *)
(***************************************************************************)
VARINT_SAT == 2147483647

RECURSIVE write_var_u64(_)
write_var_u64(v) ==
    IF v \div 128 = 0 THEN <<v % 128>>
    ELSE <<(v % 128) + 128>> \o write_var_u64(v \div 128)

Pow128(n) == IF n = 0 THEN 1 ELSE IF n = 1 THEN 128 ELSE IF n = 2 THEN 16384
             ELSE IF n = 3 THEN 2097152 ELSE 268435456

\* result |= value << shift, saturating
ShiftOr(result, value, shift) ==
    IF value = 0 THEN result
    ELSE IF shift > 4 \/ (shift = 4 /\ value > 7) THEN VARINT_SAT
    ELSE IF result = VARINT_SAT THEN VARINT_SAT
    ELSE result + value * Pow128(shift)

RECURSIVE ReadVarLoop(_, _, _, _, _)
ReadVarLoop(input, pos, result, shift, bytes_read) ==
    IF pos >= Len(input)
    THEN [err |-> E("Corruption", "encoding.varint.eof"), val |-> 0, pos |-> pos]
    ELSE IF bytes_read + 1 > 10
    THEN [err |-> E("Corruption", "encoding.varint.too_long"), val |-> 0, pos |-> pos + 1]
    ELSE LET b == input[pos + 1]
         IN
         Bind(ShiftOr(result, b % 128, shift), LAMBDA r :
              IF b < 128 THEN [err |-> NoErr, val |-> r, pos |-> pos + 1]
             ELSE ReadVarLoop(input, pos + 1, r, shift + 1, bytes_read + 1))

\* pos is the 0-based read position, as in the source
read_var_u64(input, pos) == ReadVarLoop(input, pos, 0, 0, 0)

\* u32::to_le_bytes / from_le_bytes on <<hi, lo>>
U32ToLe(x) == <<x[2] % 256, x[2] \div 256, x[1] % 256, x[1] \div 256>>
U32FromLe(b) == <<b[4] * 256 + b[3], b[2] * 256 + b[1]>>

\* u64::to_le_bytes / from_le_bytes on four 16-bit limbs
U64ToLe(v) == <<v[4] % 256, v[4] \div 256, v[3] % 256, v[3] \div 256,
                v[2] % 256, v[2] \div 256, v[1] % 256, v[1] \div 256>>
U64FromLe(b) == <<b[8] * 256 + b[7], b[6] * 256 + b[5],
                  b[4] * 256 + b[3], b[2] * 256 + b[1]>>

U16ToLe(n) == <<n % 256, n \div 256>>
U16FromLe(b) == b[2] * 256 + b[1]

read_u32_le(input, pos) ==
    IF pos + 4 > Len(input)
    THEN [err |-> E("Corruption", "encoding.fixed.eof"), val |-> <<>>, pos |-> pos]
    ELSE [err |-> NoErr, val |-> U32FromLe(SubSeq(input, pos + 1, pos + 4)), pos |-> pos + 4]

read_u64_le(input, pos) ==
    IF pos + 8 > Len(input)
    THEN [err |-> E("Corruption", "encoding.fixed.eof"), val |-> <<>>, pos |-> pos]
    ELSE [err |-> NoErr, val |-> U64FromLe(SubSeq(input, pos + 1, pos + 8)), pos |-> pos + 8]

write_bytes(bytes) == write_var_u64(Len(bytes)) \o bytes

read_bytes(input, pos, max_len) ==
    Bind(read_var_u64(input, pos), LAMBDA l :
         IF l.err # NoErr THEN [err |-> l.err, val |-> <<>>, pos |-> l.pos]
        ELSE IF l.val > max_len
        THEN [err |-> E("Corruption", "encoding.bytes.too_large"), val |-> <<>>, pos |-> l.pos]
        ELSE IF l.pos + l.val > Len(input)
        THEN [err |-> E("Corruption", "encoding.bytes.eof"), val |-> <<>>, pos |-> l.pos]
        ELSE [err |-> NoErr, val |-> SubSeq(input, l.pos + 1, l.pos + l.val),
              pos |-> l.pos + l.val])

\* String::from_utf8 on the byte strings of the model, which are ASCII
Utf8Ok(bytes) == \A i \in 1..Len(bytes) : bytes[i] < 128

read_string(input, pos, max_len) ==
    Bind(read_bytes(input, pos, max_len), LAMBDA r :
         IF r.err # NoErr THEN r
        ELSE IF ~Utf8Ok(r.val)
        THEN [err |-> E("Corruption", "encoding.string.utf8"), val |-> <<>>, pos |-> r.pos]
        ELSE r)

(***************************************************************************)
(* schema.rs, row.rs.  A column is [name, ty, nullable]; a value is        *)
(* [tag |-> "Null"] or [tag |-> ty, v |-> payload]: a <<hi, lo>> pair for  *)
(* U32, four limbs for U64 and I64, a boolean, or a byte sequence.         *)
(***************************************************************************)
ROW_MAGIC == <<82, 79, 87, 49>>
MAX_VAR_LEN == 1048576

Null == [tag |-> "Null"]

\* the names the model draws from that consist of [A-Za-z0-9_] only
NameCharsOk(name) == name \in {"a", "b", "v", "blob", ""}

SchemaNew(columns) ==
    IF Len(columns) = 0 THEN E("InvalidArgument", "columns")
    ELSE IF \E i \in 1..Len(columns) : Len(columns[i].name) = 0
    THEN E("InvalidArgument", "column.name")
    ELSE IF \E i \in 1..Len(columns) : ~NameCharsOk(columns[i].name)
    THEN E("InvalidArgument", "column.name")
    ELSE IF \E i, j \in 1..Len(columns) : i < j /\ columns[i].name = columns[j].name
    THEN E("InvalidArgument", "column.name")
    ELSE NoErr

TypeTag(ty) ==
    CASE ty = "U32" -> 1 [] ty = "U64" -> 2 [] ty = "I64" -> 3
      [] ty = "Bool" -> 4 [] ty = "Bytes" -> 5 [] ty = "String" -> 6

EncodeValue(val) ==
    CASE val.tag = "U32"    -> <<1>> \o U32ToLe(val.v)
      [] val.tag = "U64"    -> <<2>> \o U64ToLe(val.v)
      [] val.tag = "I64"    -> <<3>> \o U64ToLe(val.v)
      [] val.tag = "Bool"   -> <<4, IF val.v THEN 1 ELSE 0>>
      [] val.tag = "Bytes"  -> <<5>> \o write_bytes(val.v)
      [] val.tag = "String" -> <<6>> \o write_bytes(val.v)
      [] val.tag = "Null"   -> <<0>>

RECURSIVE EncodeColumns(_, _, _, _)
EncodeColumns(schema, row, i, out) ==
    IF i > Len(schema) THEN [err |-> NoErr, val |-> out]
    ELSE IF row[i].tag = "Null" /\ ~schema[i].nullable
    THEN [err |-> E("InvalidArgument", "row.null"), val |-> <<>>]
    ELSE IF row[i].tag # "Null" /\ row[i].tag # schema[i].ty
    THEN [err |-> E("InvalidArgument", "row.type"), val |-> <<>>]
    ELSE EncodeColumns(schema, row, i + 1, out \o EncodeValue(row[i]))

encode_row(schema, row) ==
    IF Len(schema) # Len(row) THEN [err |-> E("InvalidArgument", "row"), val |-> <<>>]
    ELSE EncodeColumns(schema, row, 1, ROW_MAGIC \o write_var_u64(Len(schema)))

\* one tagged value at pos: [err, val, pos]
DecodeValue(col, bytes, pos) ==
    LET tag == bytes[pos + 1]
        at == pos + 1
    IN  CASE tag = 0 ->
               IF ~col.nullable
               THEN [err |-> E("InvalidArgument", "row.null"), val |-> Null, pos |-> at]
               ELSE [err |-> NoErr, val |-> Null, pos |-> at]
          [] tag = 1 ->
               Bind(read_u32_le(bytes, at), LAMBDA r :
                    [err |-> r.err, val |-> [tag |-> "U32", v |-> r.val], pos |-> r.pos])
          [] tag = 2 ->
               Bind(read_u64_le(bytes, at), LAMBDA r :
                    [err |-> r.err, val |-> [tag |-> "U64", v |-> r.val], pos |-> r.pos])
          [] tag = 3 ->
               Bind(read_u64_le(bytes, at), LAMBDA r :
                    [err |-> r.err, val |-> [tag |-> "I64", v |-> r.val], pos |-> r.pos])
          [] tag = 4 ->
               IF at >= Len(bytes)
               THEN [err |-> E("Corruption", "row.bool"), val |-> Null, pos |-> at]
               ELSE IF bytes[at + 1] \notin {0, 1}
               THEN [err |-> E("Corruption", "row.bool"), val |-> Null, pos |-> at + 1]
               ELSE [err |-> NoErr, val |-> [tag |-> "Bool", v |-> (bytes[at + 1] = 1)],
                     pos |-> at + 1]
          [] tag = 5 ->
               Bind(read_bytes(bytes, at, MAX_VAR_LEN), LAMBDA r :
                    [err |-> r.err, val |-> [tag |-> "Bytes", v |-> r.val], pos |-> r.pos])
          [] tag = 6 ->
               Bind(read_string(bytes, at, MAX_VAR_LEN), LAMBDA r :
                    [err |-> r.err, val |-> [tag |-> "String", v |-> r.val], pos |-> r.pos])
          [] OTHER ->
               [err |-> E("Corruption", "row.tag"), val |-> Null, pos |-> at]

RECURSIVE DecodeColumns(_, _, _, _, _)
DecodeColumns(schema, bytes, i, pos, row) ==
    IF i > Len(schema)
    THEN IF pos # Len(bytes) THEN [err |-> E("Corruption", "row.trailing"), val |-> <<>>]
         ELSE [err |-> NoErr, val |-> row]
    ELSE IF pos >= Len(bytes) THEN [err |-> E("Corruption", "row.tag"), val |-> <<>>]
    ELSE Bind(DecodeValue(schema[i], bytes, pos), LAMBDA d :
              IF d.err # NoErr THEN [err |-> d.err, val |-> <<>>]
             ELSE IF d.val.tag # "Null" /\ d.val.tag # schema[i].ty
             THEN [err |-> E("Corruption", "row.type"), val |-> <<>>]
             ELSE DecodeColumns(schema, bytes, i + 1, d.pos, Append(row, d.val)))

decode_row(schema, bytes) ==
    IF Len(bytes) < Len(ROW_MAGIC) THEN [err |-> E("Corruption", "row.magic"), val |-> <<>>]
    ELSE IF SubSeq(bytes, 1, 4) # ROW_MAGIC
    THEN [err |-> E("Corruption", "row.magic"), val |-> <<>>]
    ELSE Bind(read_var_u64(bytes, 4), LAMBDA c :
              IF c.err # NoErr THEN [err |-> c.err, val |-> <<>>]
             ELSE IF c.val # Len(schema)
             THEN [err |-> E("Corruption", "row.column_count"), val |-> <<>>]
             ELSE DecodeColumns(schema, bytes, 1, c.pos, <<>>))

(***************************************************************************)
(* catalog.rs.  A catalog is [next_table_id, tables]; a table definition   *)
(* is [id, name, schema, next_pk, last_row_page]; next_pk is a u32 <<hi,   *)
(* lo>>.                                                                   *)
(***************************************************************************)
get_by_name(cat, name) == {i \in 1..Len(cat.tables) : cat.tables[i].name = name}

\* iter().find(): the first table of that name
FirstByName(cat, name) ==
    CHOOSE i \in get_by_name(cat, name) : \A j \in get_by_name(cat, name) : i <= j

validate_table_name(name) ==
    IF Len(name) = 0 \/ Len(name) > 64 THEN E("InvalidArgument", "table.name")
    ELSE IF ~NameCharsOk(name) THEN E("InvalidArgument", "table.name")
    ELSE NoErr

\* a duplicate check that never fires
name_is_taken_never(cat, name) == FALSE

\* self.get_by_name(name).is_some()
name_is_taken(cat, name) == get_by_name(cat, name) # {}

\* a table id counter that does not advance
checked_next_table_id_stuck(next_table_id) == next_table_id

\* self.next_table_id.checked_add(1); ids explored stay far below u32::MAX
checked_next_table_id(next_table_id) == next_table_id + 1

\* a new table whose pk counter starts at 0
NewTableDef_pk0(id, name, schema) ==
    [id |-> id, name |-> name, schema |-> schema, next_pk |-> ToU32(0), last_row_page |-> 0]

\* the TableDef that create_table pushes
NewTableDef(id, name, schema) ==
    [id |-> id, name |-> name, schema |-> schema, next_pk |-> ToU32(1), last_row_page |-> 0]

\* Catalog::create_table: [err, cat, val]
create_table(cat, name, schema) ==
    IF validate_table_name(name) # NoErr
    THEN [err |-> validate_table_name(name), cat |-> cat, val |-> 0]
    ELSE IF name_is_taken(cat, name)
    THEN [err |-> E("InvalidArgument", "table.name"), cat |-> cat, val |-> 0]
    ELSE LET id == cat.next_table_id
         IN  [err |-> NoErr,
              cat |-> [next_table_id |-> checked_next_table_id(id),
                       tables |-> Append(cat.tables, NewTableDef(id, name, schema))],
              val |-> id]

RECURSIVE SumLen(_, _)
SumLen(f, n) == IF n = 0 THEN 0 ELSE f[n] + SumLen(f, n - 1)

\* length of encode_schema(schema)
EncodedSchemaLen(schema) ==
    4 + Len(write_var_u64(Len(schema)))
      + SumLen([i \in 1..Len(schema) |->
                  Len(write_var_u64(Len(schema[i].name))) + Len(schema[i].name) + 2],
               Len(schema))

\* length of encode_catalog(cat)
EncodedCatalogLen(cat) ==
    16 + SumLen([i \in 1..Len(cat.tables) |->
                   4 + Len(write_var_u64(Len(cat.tables[i].name)))
                     + Len(cat.tables[i].name)
                     + Len(write_var_u64(EncodedSchemaLen(cat.tables[i].schema)))
                     + EncodedSchemaLen(cat.tables[i].schema) + 8],
                Len(cat.tables))

encode_catalog(cat) ==
    IF \E i \in 1..Len(cat.tables) :
          \E c \in 1..Len(cat.tables[i].schema) : Len(cat.tables[i].schema[c].name) > 64
    THEN [err |-> E("InvalidArgument", "column.name"), body |-> <<>>]
    ELSE IF EncodedCatalogLen(cat) > PAGE_SIZE - 16
    THEN [err |-> E("Unsupported", "catalog.page_overflow"), body |-> <<>>]
    ELSE [err |-> NoErr,
          body |-> [magic |-> "CAT1", version |-> 1,
                    next_table_id |-> cat.next_table_id, reserved |-> 0,
                    tables |-> cat.tables]]

decode_catalog(body) ==
    IF body.magic # "CAT1" THEN [err |-> E("Corruption", "catalog.magic"), val |-> <<>>]
    ELSE IF body.version # 1 THEN [err |-> E("Unsupported", "catalog.version"), val |-> <<>>]
    ELSE IF body.reserved # 0 THEN [err |-> E("Unsupported", "catalog.reserved"), val |-> <<>>]
    ELSE IF \E i \in 1..Len(body.tables) : validate_table_name(body.tables[i].name) # NoErr
    THEN [err |-> E("Corruption", "catalog.name"), val |-> <<>>]
    ELSE IF \E i \in 1..Len(body.tables) : SchemaNew(body.tables[i].schema) # NoErr
    THEN [err |-> E("Corruption", "schema.invalid"), val |-> <<>>]
    ELSE IF \E i \in 1..Len(body.tables) : U32Less(body.tables[i].next_pk, ToU32(1))
    THEN [err |-> E("Corruption", "catalog.next_pk"), val |-> <<>>]
    ELSE IF \E i, j \in 1..Len(body.tables) :
               i < j /\ (body.tables[i].id = body.tables[j].id
                         \/ body.tables[i].name = body.tables[j].name)
    THEN [err |-> E("Corruption", "catalog.duplicate"), val |-> <<>>]
    ELSE [err |-> NoErr,
          val |-> [next_table_id |-> body.next_table_id, tables |-> body.tables]]

\* a read of the catalog that takes its page through get_page_mut
read_catalog_marking(p) ==
    Bind(get_page_mut(p, CATALOG_PAGE_ID), LAMBDA g :
         IF ~IsOk(g) THEN Err(g.p, g.err)
        ELSE IF g.val.kind # META_PAGE_KIND THEN Err(g.p, E("Corruption", "catalog.page_kind"))
        ELSE IF validate_header(g.val, CATALOG_PAGE_ID) # NoErr
        THEN Err(g.p, validate_header(g.val, CATALOG_PAGE_ID))
        ELSE Bind(decode_catalog(g.val.body), LAMBDA d :
                  IF d.err # NoErr THEN Err(g.p, d.err) ELSE Ok(g.p, d.val)))

\* Pager::read_catalog
read_catalog(p) ==
    Bind(get_page(p, CATALOG_PAGE_ID), LAMBDA g :
         IF ~IsOk(g) THEN Err(g.p, g.err)
        ELSE IF g.val.kind # META_PAGE_KIND THEN Err(g.p, E("Corruption", "catalog.page_kind"))
        ELSE IF validate_header(g.val, CATALOG_PAGE_ID) # NoErr
        THEN Err(g.p, validate_header(g.val, CATALOG_PAGE_ID))
        ELSE Bind(decode_catalog(g.val.body), LAMBDA d :
                  IF d.err # NoErr THEN Err(g.p, d.err) ELSE Ok(g.p, d.val)))

\* Pager::write_catalog
write_catalog(p, cat) ==
    Bind(encode_catalog(cat), LAMBDA enc :
         IF enc.err # NoErr THEN Err(p, enc.err)
        ELSE Bind(get_page_mut(p, CATALOG_PAGE_ID), LAMBDA g :
                  IF ~IsOk(g) THEN Err(g.p, g.err)
                 ELSE IF g.val.kind # META_PAGE_KIND
                 THEN Err(g.p, E("Corruption", "catalog.page_kind"))
                 ELSE Ok(StorePage(g.p, CATALOG_PAGE_ID,
                                   [g.val EXCEPT !.body = enc.body]), <<>>)))

(***************************************************************************)
(* rowstore.rs.  A row pointer is [page_id, offset, len].                  *)
(***************************************************************************)
pack(ptr) == <<ptr.page_id \div 65536, ptr.page_id % 65536, ptr.offset, ptr.len>>

unpack(v) == [page_id |-> v[1] * 65536 + v[2], offset |-> v[3], len |-> v[4]]

\* RowPtr::validate
validate(ptr) ==
    IF ptr.page_id = 0 THEN E("Corruption", "rowptr.invalid")
    ELSE IF ptr.offset < 32 THEN E("Corruption", "rowptr.invalid")
    ELSE IF ptr.len = 0 THEN E("Corruption", "rowptr.invalid")
    ELSE IF ptr.offset + ptr.len > PAGE_SIZE THEN E("Corruption", "rowptr.invalid")
    ELSE NoErr

\* a row page header check that accepts every header
validate_row_page_header_any(body) == NoErr

validate_row_page_header(body) ==
    IF body.magic # "ROWP" THEN E("Corruption", "rowpage.magic")
    ELSE IF body.version # 1 THEN E("Unsupported", "rowpage.version")
    ELSE IF body.reserved # 0 THEN E("Unsupported", "rowpage.reserved")
    ELSE IF body.reserved2 # 0 THEN E("Unsupported", "rowpage.reserved2")
    ELSE IF body.free_offset < 32 \/ body.free_offset > PAGE_SIZE
    THEN E("Corruption", "rowpage.free_offset")
    ELSE NoErr

\* the byte of a row page at absolute offset off >= 28
RowByteAt(body, off) ==
    IF off < 32 THEN (IF off = 28 THEN body.reserved2 % 256
                      ELSE IF off = 29 THEN (body.reserved2 \div 256) % 256
                      ELSE IF off = 30 THEN (body.reserved2 \div 65536) % 256
                      ELSE body.reserved2 \div 16777216)
    ELSE IF off - 31 <= Len(body.data) THEN body.data[off - 31]
    ELSE 0

\* a byte string of n zero bytes
ZeroBytes(n) == [i \in 1..n |-> 0]

\* buf[off .. off + Len(bytes)] = bytes on a row page
RowWriteAt(body, off, bytes) ==
    LET start == off - 32
        old == body.data
        padded == IF Len(old) < start THEN old \o ZeroBytes(start - Len(old)) ELSE old
        after == start + Len(bytes)
    IN  [body EXCEPT !.data = SubSeq(padded, 1, start) \o bytes
                                \o SubSeq(padded, after + 1, Len(padded))]

\* a free offset that is always the start of the record area
read_free_offset_start(p, page_id) ==
    Bind(get_page(p, page_id), LAMBDA g :
         IF ~IsOk(g) THEN Err(g.p, g.err) ELSE Ok(g.p, 32))

\* RowStore::read_free_offset
read_free_offset(p, page_id) ==
    Bind(get_page(p, page_id), LAMBDA g :
         IF ~IsOk(g) THEN Err(g.p, g.err)
        ELSE IF g.val.kind # ROW_PAGE_KIND THEN Err(g.p, E("Corruption", "rowpage.kind"))
        ELSE IF validate_header(g.val, page_id) # NoErr
        THEN Err(g.p, validate_header(g.val, page_id))
        ELSE IF validate_row_page_header(g.val.body) # NoErr
        THEN Err(g.p, validate_row_page_header(g.val.body))
        ELSE Ok(g.p, g.val.body.free_offset))

\* a length guard that accepts every record
row_too_large_never(row_bytes) == FALSE

\* row_bytes.len() > 3500
row_too_large(row_bytes) == Len(row_bytes) > ROW_MAX_LEN

\* RowStore::append_row: val is [ptr, last_row_page]
append_row(p, table_last_row_page, row_bytes) ==
    IF row_too_large(row_bytes) THEN Err(p, E("Unsupported", "row.too_large"))
    ELSE
    Bind(IF table_last_row_page = 0 THEN allocate_row_page(p)
             ELSE Ok(p, table_last_row_page), LAMBDA a :
         IF ~IsOk(a) THEN Err(a.p, a.err) ELSE
    LET needed == 2 + Len(row_bytes)
    IN
    Bind(read_free_offset(a.p, a.val), LAMBDA f1 :
         IF ~IsOk(f1) THEN Err(f1.p, f1.err) ELSE
    Bind(IF f1.val + needed > PAGE_SIZE THEN allocate_row_page(f1.p)
             ELSE Ok(f1.p, a.val), LAMBDA b :
         IF ~IsOk(b) THEN Err(b.p, b.err) ELSE
    LET page_id == b.val
    IN
    Bind(read_free_offset(b.p, page_id), LAMBDA f2 :
         IF ~IsOk(f2) THEN Err(f2.p, f2.err)
        ELSE IF f2.val + needed > PAGE_SIZE
        THEN Err(f2.p, E("Corruption", "rowpage.free_offset"))
        ELSE
    Bind(get_page_mut(f2.p, page_id), LAMBDA g :
         IF ~IsOk(g) THEN Err(g.p, g.err) ELSE
    LET free_offset == f2.val
    IN
    Bind(RowWriteAt(g.val.body, free_offset, U16ToLe(Len(row_bytes))), LAMBDA w1 :
    Bind(RowWriteAt(w1, free_offset + 2, row_bytes), LAMBDA w2 :
    LET w3 == [w2 EXCEPT !.free_offset = free_offset + needed]
        ptr == [page_id |-> page_id, offset |-> free_offset + 2, len |-> Len(row_bytes)]
    IN  Ok(StorePage(g.p, page_id, [g.val EXCEPT !.body = w3]),
           [ptr |-> ptr, last_row_page |-> page_id]))))))))

\* RowStore::read_row
read_row(p, ptr) ==
    IF validate(ptr) # NoErr THEN Err(p, validate(ptr)) ELSE
    Bind(get_page(p, ptr.page_id), LAMBDA g :
         IF ~IsOk(g) THEN Err(g.p, g.err)
        ELSE IF g.val.kind # ROW_PAGE_KIND THEN Err(g.p, E("Corruption", "rowpage.kind"))
        ELSE IF validate_header(g.val, ptr.page_id) # NoErr
        THEN Err(g.p, validate_header(g.val, ptr.page_id))
        ELSE IF validate_row_page_header(g.val.body) # NoErr
        THEN Err(g.p, validate_row_page_header(g.val.body))
        ELSE
    LET len_offset == ptr.offset - 2
    IN
    Bind(U16FromLe(<<RowByteAt(g.val.body, len_offset),
                                  RowByteAt(g.val.body, len_offset + 1)>>), LAMBDA stored_len :
         IF stored_len # ptr.len THEN Err(g.p, E("Corruption", "rowpage.len_mismatch"))
        ELSE LET body == g.val.body
                 start == ptr.offset
             IN  Ok(g.p, [i \in 1..ptr.len |-> RowByteAt(body, start + i - 1)])))

(***************************************************************************)
(* table.rs                                                                *)
(***************************************************************************)
\* a pk counter that does not advance
checked_next_pk_stuck(next_pk) == next_pk

\* table.next_pk.checked_add(1) when it does not overflow
checked_next_pk(next_pk) == WrappingAdd32(next_pk, ToU32(1))

\* an addition that wraps around instead of failing
checked_add_wrapping(a, b) == Some(WrappingAdd32(a, b))

\* u32::checked_add on <<hi, lo>>: None on overflow
checked_add(a, b) ==
    IF a[1] + b[1] + ((a[2] + b[2]) \div 65536) > 65535 THEN None
    ELSE Some(WrappingAdd32(a, b))

\* the number that a u32 below 2^31 stands for
U32ToNat(x) == x[1] * 65536 + x[2]

\* table::insert_row: [p, err, val, cat]; val is the pk, a u32, and zero
\* when the call fails; cat is the caller's catalog as
\* the call left it: next_pk is stored before the row is encoded and
\* last_row_page once the row is appended, also when a later step fails
insert_row(p, catalog, table_name, row) ==
    IF get_by_name(catalog, table_name) = {}
    THEN [p |-> p, err |-> E("InvalidArgument", "table"), val |-> ToU32(0), cat |-> catalog]
    ELSE
    Bind(FirstByName(catalog, table_name), LAMBDA ti :
    LET table == catalog.tables[ti]
        pk == table.next_pk
    IN  IF checked_add(table.next_pk, ToU32(1)) = None
        THEN [p |-> p, err |-> E("Overflow", "table.next_pk"), val |-> ToU32(0), cat |-> catalog]
        ELSE
    Bind([catalog EXCEPT !.tables[ti].next_pk = checked_next_pk(pk)], LAMBDA counted :
    Bind(encode_row(table.schema, row), LAMBDA enc :
         IF enc.err # NoErr
         THEN [p |-> p, err |-> enc.err, val |-> ToU32(0), cat |-> counted] ELSE
    Bind(U32ToLe(pk) \o enc.val, LAMBDA stored :
    Bind(append_row(p, table.last_row_page, stored), LAMBDA ap :
         IF ~IsOk(ap)
         THEN [p |-> ap.p, err |-> ap.err, val |-> ToU32(0), cat |-> counted] ELSE
    Bind([counted EXCEPT !.tables[ti].last_row_page = ap.val.last_row_page], LAMBDA placed :
    Bind(composite_key_u32(ToU32(table.id), pk), LAMBDA composite :
    Bind(pack(ap.val.ptr), LAMBDA packed :
    LET root == ap.p.root_page_id
    IN
    Bind(insert_u64(ap.p, root, composite, packed), LAMBDA ins :
         IF ~IsOk(ins)
         THEN [p |-> ins.p, err |-> ins.err, val |-> ToU32(0), cat |-> placed] ELSE
    Bind(IF ins.val # root THEN set_root_page_id(ins.p, ins.val)
              ELSE Ok(ins.p, <<>>), LAMBDA sr :
         IF ~IsOk(sr)
         THEN [p |-> sr.p, err |-> sr.err, val |-> ToU32(0), cat |-> placed]
         ELSE [p |-> sr.p, err |-> NoErr, val |-> pk, cat |-> placed]))))))))))

\* a prefix comparison that accepts every prefix
pk_prefix_differs_never(stored, pk) == FALSE

\* u32::from_le_bytes(stored[0..4]) != pk
pk_prefix_differs(stored, pk) == U32FromLe(SubSeq(stored, 1, 4)) # ToU32(pk)

\* table::get_row_by_pk: val is Option<Row>
get_row_by_pk(p, catalog, table_name, pk) ==
    IF get_by_name(catalog, table_name) = {}
    THEN Err(p, E("InvalidArgument", "table"))
    ELSE
    Bind(catalog.tables[FirstByName(catalog, table_name)], LAMBDA table :
    Bind(search_u64(p, p.root_page_id, composite_key(table.id, pk)), LAMBDA s :
         IF ~IsOk(s) THEN Err(s.p, s.err)
        ELSE IF s.val = None THEN Ok(s.p, None)
        ELSE
    Bind(unpack(s.val[1]), LAMBDA ptr :
         IF validate(ptr) # NoErr THEN Err(s.p, validate(ptr)) ELSE
    Bind(read_row(s.p, ptr), LAMBDA rd :
         IF ~IsOk(rd) THEN Err(rd.p, rd.err)
        ELSE IF Len(rd.val) < 4 THEN Err(rd.p, E("Corruption", "table.pk_mismatch"))
        ELSE IF pk_prefix_differs(rd.val, pk)
        THEN Err(rd.p, E("Corruption", "table.pk_mismatch"))
        ELSE
    Bind(decode_row(table.schema, SubSeq(rd.val, 5, Len(rd.val))), LAMBDA d :
         IF d.err # NoErr THEN Err(rd.p, d.err) ELSE Ok(rd.p, Some(d.val)))))))

RECURSIVE ScanLoop(_, _, _, _, _, _)
ScanLoop(p, catalog, table_name, pk, next_pk, rows) ==
    IF pk >= next_pk THEN Ok(p, rows)
    ELSE Bind(get_row_by_pk(p, catalog, table_name, pk), LAMBDA g :
              IF ~IsOk(g) THEN Err(g.p, g.err)
             ELSE ScanLoop(g.p, catalog, table_name, pk + 1, next_pk,
                           IF g.val = None THEN rows
                           ELSE Append(rows, <<pk, g.val[1]>>)))

\* table::scan_table: val is the sequence of <<pk, row>>
scan_table(p, catalog, table_name) ==
    IF get_by_name(catalog, table_name) = {}
    THEN Err(p, E("InvalidArgument", "table"))
    ELSE ScanLoop(p, catalog, table_name, 1,
                  U32ToNat(catalog.tables[FirstByName(catalog, table_name)].next_pk), <<>>)

(***************************************************************************)
(* lib.rs: the Db facade and the structural validator                      *)
(***************************************************************************)
DbCreateTable(p, name, schema) ==
    Bind(read_catalog(p), LAMBDA rc :
         IF ~IsOk(rc) THEN Err(rc.p, rc.err) ELSE
    Bind(create_table(rc.val, name, schema), LAMBDA c :
         IF c.err # NoErr THEN Err(rc.p, c.err) ELSE
    Bind(write_catalog(rc.p, c.cat), LAMBDA w :
         IF ~IsOk(w) THEN Err(w.p, w.err) ELSE Ok(w.p, c.val))))

DbGetTable(p, name) ==
    Bind(read_catalog(p), LAMBDA rc :
         IF ~IsOk(rc) THEN Err(rc.p, rc.err)
        ELSE IF get_by_name(rc.val, name) = {} THEN Ok(rc.p, None)
        ELSE Ok(rc.p, Some(rc.val.tables[FirstByName(rc.val, name)])))

DbListTables(p) ==
    Bind(read_catalog(p), LAMBDA rc :
         IF ~IsOk(rc) THEN Err(rc.p, rc.err) ELSE Ok(rc.p, rc.val.tables))

\* a facade that writes the catalog back also when insert_row failed
DbInsertRow_writes_back(p, table_name, row) ==
    Bind(read_catalog(p), LAMBDA rc :
         IF ~IsOk(rc) THEN Err(rc.p, rc.err) ELSE
    Bind(insert_row(rc.p, rc.val, table_name, row), LAMBDA t :
    Bind(write_catalog(t.p, t.cat), LAMBDA w :
         IF t.err # NoErr THEN Err(w.p, t.err)
         ELSE IF ~IsOk(w) THEN Err(w.p, w.err) ELSE Ok(w.p, t.val))))

DbInsertRow(p, table_name, row) ==
    Bind(read_catalog(p), LAMBDA rc :
         IF ~IsOk(rc) THEN Err(rc.p, rc.err) ELSE
    Bind(insert_row(rc.p, rc.val, table_name, row), LAMBDA t :
         IF t.err # NoErr THEN Err(t.p, t.err) ELSE
    Bind(write_catalog(t.p, t.cat), LAMBDA w :
         IF ~IsOk(w) THEN Err(w.p, w.err) ELSE Ok(w.p, t.val))))

DbGetRowByPk(p, table_name, pk) ==
    Bind(read_catalog(p), LAMBDA rc :
         IF ~IsOk(rc) THEN Err(rc.p, rc.err)
        ELSE get_row_by_pk(rc.p, rc.val, table_name, pk))

DbScanTable(p, table_name) ==
    Bind(read_catalog(p), LAMBDA rc :
         IF ~IsOk(rc) THEN Err(rc.p, rc.err)
        ELSE scan_table(rc.p, rc.val, table_name))

\* one pass of the loop of find_leftmost_leaf at the page current: done
\* with the result res, or the descent goes on at next, one level deeper
LeftmostStep(p, current, page_count, depth) ==
    IF depth > 64 THEN [done |-> TRUE, res |-> Err(p, E("Corruption", "btree.depth"))]
    ELSE
    Bind(get_page(p, current), LAMBDA g :
         IF ~IsOk(g) THEN [done |-> TRUE, res |-> Err(g.p, g.err)]
        ELSE Bind(decode(g.val, page_count), LAMBDA d :
                  IF d.err # NoErr THEN [done |-> TRUE, res |-> Err(g.p, d.err)]
                 ELSE IF d.val.kind = "Leaf"
                 THEN [done |-> TRUE, res |-> Ok(g.p, current)]
                 ELSE IF Len(d.val.children) = 0
                 THEN [done |-> TRUE,
                       res |-> Err(g.p, E("Corruption", "btree.internal.child"))]
                 ELSE [done |-> FALSE, p |-> g.p, depth |-> depth + 1,
                       next |-> d.val.children[1]]))

\* n passes of the loop from the state s, the first half of them and then
\* the rest; a pass changes nothing once the loop has returned
RECURSIVE LeftmostLoop(_, _, _)
LeftmostLoop(s, n, page_count) ==
    IF s.done THEN s
    ELSE IF n <= 1 THEN LeftmostStep(s.p, s.next, page_count, s.depth)
    ELSE LeftmostLoop(LeftmostLoop(s, n \div 2, page_count), n - (n \div 2), page_count)

\* the pass at depth 65 returns, so 66 - depth passes end the loop
find_leftmost_leaf(p, current, page_count, depth) ==
    LeftmostLoop([done |-> FALSE, p |-> p, next |-> current, depth |-> depth],
                 66 - depth, page_count).res

RECURSIVE LeafChainLoop(_, _, _, _, _)
LeafChainLoop(p, current, page_count, steps, visited) ==
    IF current = 0 THEN Ok(p, <<>>)
    ELSE IF steps > 10000 THEN Err(p, E("Corruption", "btree.leaf_cycle"))
    ELSE IF current \in visited THEN Err(p, E("Corruption", "btree.leaf_cycle"))
    ELSE Bind(get_page(p, current), LAMBDA g :
              IF ~IsOk(g) THEN Err(g.p, g.err)
             ELSE Bind(decode(g.val, page_count), LAMBDA d :
                       IF d.err # NoErr THEN Err(g.p, d.err)
                      ELSE IF d.val.kind # "Leaf"
                      THEN Err(g.p, E("Corruption", "btree.leaf_cycle"))
                      ELSE IF d.val.next_leaf = 0 THEN Ok(g.p, <<>>)
                      ELSE IF d.val.next_leaf >= page_count
                      THEN Err(g.p, E("Corruption", "btree.leaf_cycle"))
                      ELSE LeafChainLoop(g.p, d.val.next_leaf, page_count,
                                         steps + 1, visited \cup {current})))

\* an open that does not walk the leaf chain
validate_leaf_chain_skipped(p, root, page_count) == Ok(p, <<>>)

validate_leaf_chain(p, root, page_count) ==
    Bind(find_leftmost_leaf(p, root, page_count, 0), LAMBDA s :
         IF ~IsOk(s) THEN Err(s.p, s.err)
        ELSE LeafChainLoop(s.p, s.val, page_count, 0, {}))

\* the per-table checks of validate_database, first failing table first
RECURSIVE ValidateTables(_, _, _)
ValidateTables(tables, i, page_count) ==
    IF i > Len(tables) THEN NoErr
    ELSE IF tables[i].id = 0 THEN E("Corruption", "catalog.table_id")
    ELSE IF \E j \in 1..(i - 1) :
               tables[j].id = tables[i].id \/ tables[j].name = tables[i].name
    THEN E("Corruption", "catalog.duplicate")
    ELSE IF U32Less(tables[i].next_pk, ToU32(1)) THEN E("Corruption", "catalog.next_pk")
    ELSE IF tables[i].last_row_page # 0 /\ tables[i].last_row_page >= page_count
    THEN E("Corruption", "catalog.last_row_page")
    ELSE IF Len(tables[i].schema) = 0 THEN E("Corruption", "catalog.schema")
    ELSE ValidateTables(tables, i + 1, page_count)

\* the row page reachability loop of validate_database
RECURSIVE ValidateRowPages(_, _, _)
ValidateRowPages(p, tables, i) ==
    IF i > Len(tables) THEN Ok(p, <<>>)
    ELSE IF tables[i].last_row_page = 0 THEN ValidateRowPages(p, tables, i + 1)
    ELSE Bind(get_page(p, tables[i].last_row_page), LAMBDA g :
              IF ~IsOk(g) THEN Err(g.p, g.err)
             ELSE IF g.val.kind # ROW_PAGE_KIND
             THEN Err(g.p, E("Corruption", "rowpage.kind"))
             ELSE IF validate_header(g.val, tables[i].last_row_page) # NoErr
             THEN Err(g.p, validate_header(g.val, tables[i].last_row_page))
             ELSE IF validate_row_page_header(g.val.body) # NoErr
             THEN Err(g.p, validate_row_page_header(g.val.body))
             ELSE ValidateRowPages(g.p, tables, i + 1))

validate_database(p) ==
    LET page_count == p.page_count
        root == p.root_page_id
    IN  IF page_count < 3 THEN Err(p, E("Corruption", "catalog.missing"))
        ELSE IF root = 0 \/ root >= page_count
        THEN Err(p, E("Corruption", "header.root_page_id"))
        ELSE
    Bind(get_page(p, root), LAMBDA g :
         IF ~IsOk(g) THEN Err(g.p, g.err)
        ELSE IF g.val.kind # BTREE_PAGE_KIND THEN Err(g.p, E("Corruption", "btree.page_kind"))
        ELSE IF validate_header(g.val, root) # NoErr
        THEN Err(g.p, validate_header(g.val, root))
        ELSE IF decode(g.val, page_count).err # NoErr
        THEN Err(g.p, decode(g.val, page_count).err)
        ELSE
    Bind(read_catalog(g.p), LAMBDA rc :
         IF ~IsOk(rc) THEN Err(rc.p, rc.err)
        ELSE IF ValidateTables(rc.val.tables, 1, page_count) # NoErr
        THEN Err(rc.p, ValidateTables(rc.val.tables, 1, page_count))
        ELSE
    Bind(ValidateRowPages(rc.p, rc.val.tables, 1), LAMBDA rp :
         IF ~IsOk(rp) THEN Err(rp.p, rp.err)
        ELSE validate_leaf_chain(rp.p, root, page_count))))

\* Db::create on a usable path
DbCreate == PagerCreate

\* Db::open on a usable path: the pager on success
DbOpen(file) ==
    Bind(PagerOpen(file), LAMBDA o :
         IF ~IsOk(o) THEN Err(o.p, o.err)
        ELSE Bind(validate_database(o.p), LAMBDA v :
                  IF ~IsOk(v) THEN Err(o.p, v.err) ELSE Ok(v.p, <<>>)))

(***************************************************************************)
(* lib.rs: validate_path and Db::create / Db::open on a file system.  A    *)
(* path is the sequence of its characters; the file system is a function   *)
(* from the paths of the files that exist and are not held open to their   *)
(* contents.                                                               *)
(***************************************************************************)
\* trailing separators do not count as a component
RECURSIVE StripTrailingSep(_)
StripTrailingSep(p) ==
    IF Len(p) > 1 /\ p[Len(p)] = "/"
    THEN StripTrailingSep(SubSeq(p, 1, Len(p) - 1))
    ELSE p

\* the largest index of character c in s, 0 when there is none
LastIndexOf(s, c) ==
    IF \E i \in 1..Len(s) : s[i] = c
    THEN CHOOSE i \in 1..Len(s) : s[i] = c /\ \A j \in (i + 1)..Len(s) : s[j] # c
    ELSE 0

\* Path::file_name: Option of the final component
file_name(p) ==
    Bind(StripTrailingSep(p), LAMBDA q :
    Bind(SubSeq(q, LastIndexOf(q, "/") + 1, Len(q)), LAMBDA name :
         IF name = <<>> \/ name = <<".", ".">> THEN None ELSE Some(name)))

\* Path::extension: the part of the file name after its last dot; none when
\* the name has no dot or only a leading one
extension(p) ==
    Bind(file_name(p), LAMBDA f :
         IF f = None THEN None
         ELSE Bind(LastIndexOf(f[1], "."), LAMBDA dot :
                   IF dot = 0 \/ dot = 1 THEN None
                   ELSE Some(SubSeq(f[1], dot + 1, Len(f[1])))))

WAL_EXT == <<"w", "a", "l">>

\* a path check that accepts every path
validate_path_any(p) == NoErr

validate_path(p) ==
    IF Len(p) = 0 THEN E("InvalidArgument", "path")
    ELSE IF extension(p) = Some(WAL_EXT) THEN E("Unsupported", "wal")
    ELSE NoErr

\* the value of pager while no handle exists
ClosedPager ==
    [file |-> <<>>, cache |-> <<>>, dirty |-> {},
     root_page_id |-> 0, page_count |-> 0, version |-> 0]

\* the file system without the entry of path p
Unlink(dsk, p) == [q \in (DOMAIN dsk) \ {p} |-> dsk[q]]

\* Db::create(path): [err, p, disk]; the file is created or truncated and
\* held by the new pager
DbCreateAt(dsk, p) ==
    IF validate_path(p) # NoErr
    THEN [err |-> validate_path(p), p |-> ClosedPager, disk |-> dsk]
    ELSE [err |-> NoErr, p |-> PagerCreate, disk |-> Unlink(dsk, p)]

\* Db::open(path): [err, p, disk]
DbOpenAt(dsk, p) ==
    IF validate_path(p) # NoErr
    THEN [err |-> validate_path(p), p |-> ClosedPager, disk |-> dsk]
    ELSE IF p \notin DOMAIN dsk
    THEN [err |-> E("Io", "open_existing"), p |-> ClosedPager, disk |-> dsk]
    ELSE Bind(DbOpen(dsk[p]), LAMBDA o :
              IF ~IsOk(o) THEN [err |-> o.err, p |-> ClosedPager, disk |-> dsk]
              ELSE [err |-> NoErr, p |-> o.p, disk |-> Unlink(dsk, p)])

\* drop of the handle: Drop for Pager flushes, the file stays at its path
DbDrop(dsk, p, pgr) == Put(dsk, p, flush(pgr).file)

(***************************************************************************)
(* Inputs of the exploration.                                              *)
(***************************************************************************)
\* keys of the put-only runs: enough distinct keys to overflow the root
StressKeys == {ToU32(1), ToU32(2), ToU32(3), ToU32(4), ToU32(5), <<65535, 65535>>}

\* key of the mixed runs: the tree key of row 1 of table 1
MixKeys == {composite_key(1, 1)}

PutVals == {<<0, 0, 0, 10>>, <<0, 0, 0, 20>>}
MixVals == {<<0, 0, 0, 10>>}

TableNames == {"a", "b"}

SchemaU32  == <<[name |-> "v", ty |-> "U32", nullable |-> FALSE]>>
SchemaBlob == <<[name |-> "blob", ty |-> "Bytes", nullable |-> TRUE]>>
TableInputs == {<<"a", SchemaU32>>, <<"b", SchemaBlob>>, <<"", SchemaU32>>}

RowU32(n) == <<[tag |-> "U32", v |-> ToU32(n)]>>
RowNull   == <<Null>>
Rows == {RowU32(7), RowNull}

\* composite_key(1, COLLIDING_PK) = composite_key(2, 1)
COLLIDING_PK == 1925521602
ProbePks == (0..(MaxInserts + 1)) \cup {COLLIDING_PK}
ReadPks == {1, COLLIDING_PK}

\* the path of the database that Init creates
DbPath == <<"d", "b">>

\* codec while no row codec run is in progress
IdleCodec == [step |-> "idle"]


\* length of a Bytes value whose stored record (4-byte pk prefix, ROW1,
\* column count, tag, 2-byte length, bytes) is exactly ROW_MAX_LEN long
FitLen == ROW_MAX_LEN - 12

ColTypes == {"U32", "U64", "I64", "Bool", "Bytes", "String"}

\* The values of each column type that the row codec runs draw from.  A
\* Bytes or String value is written [tag, v, pad] and stands for the bytes v
\* followed by pad zero bytes.
ValuesOf(ty) ==
    CASE ty = "U32"    -> {[tag |-> "U32", v |-> <<0, 0>>],
                           [tag |-> "U32", v |-> <<65535, 65535>>]}
      [] ty = "U64"    -> {[tag |-> "U64", v |-> <<65535, 65535, 65535, 65535>>]}
      [] ty = "I64"    -> {[tag |-> "I64", v |-> <<32768, 0, 0, 0>>]}
      [] ty = "Bool"   -> {[tag |-> "Bool", v |-> TRUE], [tag |-> "Bool", v |-> FALSE]}
      [] ty = "Bytes"  -> {[tag |-> "Bytes", v |-> <<>>, pad |-> 0],
                           [tag |-> "Bytes", v |-> <<0, 255>>, pad |-> 0],
                           [tag |-> "Bytes", v |-> <<>>, pad |-> FitLen],
                           [tag |-> "Bytes", v |-> <<>>, pad |-> FitLen + 1],
                           [tag |-> "Bytes", v |-> <<>>, pad |-> MAX_VAR_LEN + 1]}
      [] ty = "String" -> {[tag |-> "String", v |-> <<>>, pad |-> 0],
                           [tag |-> "String", v |-> <<97, 98>>, pad |-> 0]}

\* the Value that a drawn value stands for
ValueOf(d) ==
    IF d.tag \in {"Bytes", "String"}
    THEN [tag |-> d.tag, v |-> d.v \o ZeroBytes(d.pad)]
    ELSE d

\* the Row that a drawn row stands for
RowOf(drawn) == [i \in 1..Len(drawn) |-> ValueOf(drawn[i])]

\* the values a column accepts
ColumnValues(col) == ValuesOf(col.ty) \cup (IF col.nullable THEN {Null} ELSE {})

\* every <<schema, row>> of a one-column schema and a conforming row, and
\* of the schema (a: U32 not null, b: String nullable)
RowInputs ==
    UNION {LET schema == <<[name |-> "v", ty |-> ty, nullable |-> n]>>
           IN  {<<schema, <<val>>>> : val \in ColumnValues(schema[1])}
           : ty \in ColTypes, n \in BOOLEAN}
    \cup
    (LET schema == <<[name |-> "a", ty |-> "U32", nullable |-> FALSE],
                    [name |-> "b", ty |-> "String", nullable |-> TRUE]>>
     IN  {<<schema, <<x, y>>>> : x \in ColumnValues(schema[1]),
                                y \in ColumnValues(schema[2])})

\* codec at the start of a row codec run on (schema, row).  Of each call
\* of the run codec keeps the error and what the properties compare: the
\* length of the encoding, whether the decoded row is the input row, and
\* whether the second encoding is the first.
NewCodec(schema, row) ==
    [step |-> "input", schema |-> schema, row |-> row,
     enc_err |-> NoErr, enc_len |-> 0,
     dec_err |-> NoErr, dec_same |-> FALSE,
     again_err |-> NoErr, again_same |-> FALSE]

(***************************************************************************)
(* Damage done to a closed file by another program.                        *)
(***************************************************************************)
HeaderDamage ==
    {"magic", "version_low", "version_high", "reserved", "page_size",
     "root_zero", "root_high", "page_count", "short_file"}

\* the file with one header field overwritten; "short_file" is a file of
\* two pages whose header says so
DamageHeader(file, kind) ==
    LET h == file[1]
    IN  CASE kind = "magic"        -> [file EXCEPT ![1].magic = "XNVDB"]
          [] kind = "version_low"  -> [file EXCEPT ![1].version = 0]
          [] kind = "version_high" -> [file EXCEPT ![1].version = 2]
          [] kind = "reserved"     -> [file EXCEPT ![1].reserved = 1]
          [] kind = "page_size"    -> [file EXCEPT ![1].page_size = 8192]
          [] kind = "root_zero"    -> [file EXCEPT ![1].root_page_id = 0]
          [] kind = "root_high"    -> [file EXCEPT ![1].root_page_id = h.page_count]
          [] kind = "page_count"   -> [file EXCEPT ![1].page_count = h.page_count + 1]
          [] kind = "short_file"   ->
               SubSeq([file EXCEPT ![1].page_count = 2, ![1].root_page_id = 1], 1, 2)

\* the error kind that open reports for each kind of header damage
HeaderErrKind(kind) ==
    CASE kind = "magic" -> "InvalidMagic"
      [] kind \in {"version_low", "version_high"} -> "InvalidVersion"
      [] kind = "reserved" -> "Unsupported"
      [] OTHER -> "Corruption"

\* the page ids of the leaf chain of a file, leftmost leaf first
RECURSIVE LeafChainFrom(_, _, _)
LeafChainFrom(file, current, seen) ==
    IF current = 0 \/ current >= Len(file) \/ (\E i \in 1..Len(seen) : seen[i] = current)
    THEN seen
    ELSE LeafChainFrom(file, file[current + 1].body.next_leaf, Append(seen, current))

LeafChainOf(file) ==
    Bind(PagerOpen(file), LAMBDA o :
         IF ~IsOk(o) THEN <<>>
         ELSE Bind(find_leftmost_leaf(o.p, o.p.root_page_id, o.p.page_count, 0), LAMBDA l :
                   IF ~IsOk(l) THEN <<>> ELSE LeafChainFrom(file, l.val, <<>>)))

SetNextLeaf(file, id, next) == [file EXCEPT ![id + 1].body.next_leaf = next]

\* b ^= 0xFF on the byte at offset off of row page id
FlipRowByte(file, id, off) ==
    [file EXCEPT ![id + 1].body.data[off - 31] = 255 - @]

\* the i-th child id of the internal node on page id is overwritten
SetChild(page, i, child) == [page EXCEPT !.body.children[i] = child]

\* the label of the damage that points the i-th child of the root at the root
ChildCycleKinds == <<"child_cycle_1", "child_cycle_2", "child_cycle_3", "child_cycle_4">>

SetRowPageMagic(file, id) == [file EXCEPT ![id + 1].body.magic = "XOWP"]

\* keys of the runs that damage the file: enough for a second leaf
TamperKeys == {ToU32(1), ToU32(2), ToU32(3)}

\* keys searched for: the keys put and one that is never put
SearchKeys == TamperKeys \cup {ToU32(4)}

\* key of the runs that stop without a flush: with the keys of two rows it
\* overflows the root leaf
CrashKeys == {ToU32(1)}

\* cap while no node capacity run is in progress
IdleCap == [step |-> "idle"]

\* no search was noted yet
IdleGot == [step |-> "idle"]

\* page sizes of the node capacity runs: the page size of the format and
\* the sizes around the one the tree of the other runs uses
PageSizes == {PAGE_SIZE} \cup ((NodePageBytes - 28)..(NodePageBytes + 96))

\* paths handed to create and open
PathInputs ==
    {<<>>, DbPath, <<"a", ".", "w", "a", "l">>, <<".", "w", "a", "l">>,
     <<"a", ".", "w", "a", "l", "/">>}

(***************************************************************************)
(* State.  pager is the Pager of the handle, with the file it owns; open   *)
(* tells whether a handle exists.  The other variables record the calls    *)
(* made so far and are not read by the program: kv is the last value put   *)
(* under each key, log the successful insert_row calls, ids the successful *)
(* create_table calls, reopened whether the file was closed and opened     *)
(* again, each entry of log and ids whether that was before it, failed the *)
(* kinds of put_u64, create_table and insert_row calls that returned an    *)
(* error so far, fresh whether no such call was made yet, synced what the  *)
(* database returned for each key and row when flush() was last noted, cap *)
(* the node capacity run in progress, got the last noted search_u64 call.  *)
(***************************************************************************)
VARIABLES pager, open, kv, log, ids, reopened, failed, fresh,
          path, disk, tamper, openErr, codec, synced, cap, got

vars == <<pager, open, kv, log, ids, reopened, failed, fresh,
          path, disk, tamper, openErr, codec, synced, cap, got>>

\* the variables of the file system, of the row codec runs and of the
\* noted flushes
aux == <<path, disk, tamper, openErr, codec, synced, cap, got>>

\* the state after Db::create(DbPath), before any row codec call
InitBase ==
    /\ pager = DbCreate
    /\ open = TRUE
    /\ kv = <<>>
    /\ log = <<>>
    /\ ids = <<>>
    /\ reopened = FALSE
    /\ failed = {}
    /\ fresh = TRUE
    /\ path = DbPath
    /\ disk = <<>>
    /\ tamper = "none"
    /\ openErr = NoErr
    /\ synced = <<>>
    /\ got = IdleGot

Init == InitBase /\ codec = IdleCodec /\ cap = IdleCap

\* Db::put_u64(k, v)
PutU64(k, v) ==
    /\ open
    /\ LET r == put_u64(pager, k, v)
       IN  /\ pager' = r.p
           /\ kv' = IF IsOk(r) THEN Put(kv, k, v) ELSE kv
           /\ failed' = IF IsOk(r) THEN failed ELSE failed \cup {"other"}
    /\ fresh' = FALSE
    /\ UNCHANGED <<open, log, ids, reopened>>
    /\ UNCHANGED aux

\* Db::get_u64(k)
GetU64(k) ==
    /\ open
    /\ pager' = get_u64(pager, k).p
    /\ UNCHANGED <<open, kv, log, ids, reopened, failed, fresh>>
    /\ UNCHANGED aux

\* Db::create_table(name, schema)
CreateTable(name, schema) ==
    /\ open
    /\ LET r == DbCreateTable(pager, name, schema)
       IN  /\ pager' = r.p
           /\ ids' = IF IsOk(r)
                     THEN Append(ids, [id |-> r.val, name |-> name, reopened |-> reopened])
                     ELSE ids
           /\ failed' = IF IsOk(r) THEN failed
                        ELSE IF \E i \in 1..Len(ids) : ids[i].name = name
                        THEN failed \cup {"create_table.duplicate"}
                        ELSE failed \cup {"other"}
    /\ fresh' = FALSE
    /\ UNCHANGED <<open, kv, log, reopened>>
    /\ UNCHANGED aux

\* Db::insert_row(table_name, row)
InsertRow(table_name, row) ==
    /\ open
    /\ Len(log) < MaxInserts
    /\ \E r \in {DbInsertRow(pager, table_name, row)} :
           /\ pager' = r.p
           /\ log' = IF IsOk(r)
                     THEN Bind(DbGetTable(r.p, table_name).val[1], LAMBDA t :
                          Bind(composite_key_u32(ToU32(t.id), r.val), LAMBDA key :
                               Append(log,
                                 [table |-> table_name, tid |-> t.id, pk |-> U32ToNat(r.val),
                                  row |-> row, reopened |-> reopened,
                                  packed |-> get_u64(r.p, key).val])))
                     ELSE log
           /\ failed' = IF IsOk(r) THEN failed
                        ELSE IF r.err = E("Unsupported", "row.too_large")
                        THEN failed \cup {"insert_row.too_large"}
                        ELSE failed \cup {"other"}
    /\ fresh' = FALSE
    /\ UNCHANGED <<open, kv, ids, reopened>>
    /\ UNCHANGED aux

\* Db::get_row_by_pk(table_name, pk)
GetRowByPk(table_name, pk) ==
    /\ open
    /\ pager' = DbGetRowByPk(pager, table_name, pk).p
    /\ UNCHANGED <<open, kv, log, ids, reopened, failed, fresh>>
    /\ UNCHANGED aux

\* Db::scan_table(table_name)
ScanTable(table_name) ==
    /\ open
    /\ pager' = DbScanTable(pager, table_name).p
    /\ UNCHANGED <<open, kv, log, ids, reopened, failed, fresh>>
    /\ UNCHANGED aux

\* Db::flush()
Flush ==
    /\ open
    /\ pager' = flush(pager)
    /\ UNCHANGED <<open, kv, log, ids, reopened, failed, fresh>>
    /\ UNCHANGED aux

\* The handle is dropped, which flushes (Drop for Pager), and the file is
\* opened again with Db::open.
Reopen ==
    /\ open
    /\ LET dropped == flush(pager)
           o == DbOpen(dropped.file)
       IN  /\ pager' = o.p
           /\ open' = IsOk(o)
    /\ reopened' = TRUE
    /\ UNCHANGED <<kv, log, ids, failed, fresh>>
    /\ UNCHANGED aux

\* The handle is dropped without a call of flush().
Close ==
    /\ open
    /\ disk' = DbDrop(disk, path, pager)
    /\ pager' = ClosedPager
    /\ open' = FALSE
    /\ UNCHANGED <<kv, log, ids, reopened, failed, fresh, path, tamper, openErr, codec,
                   synced, cap, got>>

\* Db::create(p) while no handle exists
CreateAt(p) ==
    /\ ~open
    /\ LET r == DbCreateAt(disk, p)
       IN  /\ openErr' = r.err
           /\ IF r.err = NoErr
              THEN /\ pager' = r.p /\ disk' = r.disk /\ open' = TRUE /\ path' = p
                   /\ tamper' = IF p = DbPath THEN "none" ELSE tamper
              ELSE UNCHANGED <<pager, disk, open, path, tamper>>
    /\ UNCHANGED <<kv, log, ids, reopened, failed, fresh, codec, synced, cap, got>>

\* Db::open(p) while no handle exists
OpenAt(p) ==
    /\ ~open
    /\ LET r == DbOpenAt(disk, p)
       IN  /\ openErr' = r.err
           /\ IF r.err = NoErr
              THEN /\ pager' = r.p /\ disk' = r.disk /\ open' = TRUE /\ path' = p
                   /\ reopened' = TRUE
              ELSE UNCHANGED <<pager, disk, open, path, reopened>>
    /\ UNCHANGED <<kv, log, ids, failed, fresh, tamper, codec, synced, cap, got>>

\* Another program overwrites bytes of the closed file at DbPath; at most
\* once per run.
Damage(kind, file) ==
    /\ ~open
    /\ tamper = "none"
    /\ DbPath \in DOMAIN disk
    /\ disk' = Put(disk, DbPath, file)
    /\ tamper' = kind
    /\ UNCHANGED <<pager, open, kv, log, ids, reopened, failed, fresh, path, openErr, codec,
                   synced, cap, got>>

\* a header field is overwritten, or the file is cut to two pages
TamperHeader(kind) ==
    /\ DbPath \in DOMAIN disk
    /\ Damage(kind, DamageHeader(disk[DbPath], kind))

\* the next_leaf of the i-th leaf of the chain is pointed at the j-th
TamperNextLeaf(i, j) ==
    /\ DbPath \in DOMAIN disk
    /\ LET chain == LeafChainOf(disk[DbPath])
       IN  /\ i \in 1..Len(chain) /\ j \in 1..i
           /\ Damage("next_leaf", SetNextLeaf(disk[DbPath], chain[i], chain[j]))

\* the first byte of the pk prefix of the i-th inserted row is inverted
TamperPkPrefix(i) ==
    /\ DbPath \in DOMAIN disk
    /\ i \in 1..Len(log)
    /\ log[i].packed # None
    /\ LET ptr == unpack(log[i].packed[1])
       IN  /\ validate(ptr) = NoErr
           /\ ptr.page_id < Len(disk[DbPath])
           /\ disk[DbPath][ptr.page_id + 1].kind = ROW_PAGE_KIND
           /\ Damage("pk_prefix", FlipRowByte(disk[DbPath], ptr.page_id, ptr.offset))

\* the "ROWP" magic of the tail row page of the i-th table is overwritten
TamperRowPageMagic(i) ==
    /\ DbPath \in DOMAIN disk
    /\ LET tables == disk[DbPath][CATALOG_PAGE_ID + 1].body.tables
       IN  /\ i \in 1..Len(tables)
           /\ tables[i].last_row_page # 0
           /\ Damage("rowpage_magic",
                     SetRowPageMagic(disk[DbPath], tables[i].last_row_page))

\* what the handle returns for each key of CrashKeys and for each row of
\* the log
Snapshot(p, lg) ==
    [vals |-> [k \in CrashKeys |-> get_u64(p, k).val],
     rows |-> [i \in 1..Len(lg) |-> DbGetRowByPk(p, lg[i].table, lg[i].pk).val]]

\* Db::flush(), after which the caller notes what the database holds
FlushNoted ==
    /\ open
    /\ pager' = flush(pager)
    /\ synced' = Snapshot(flush(pager), log)
    /\ UNCHANGED <<open, kv, log, ids, reopened, failed, fresh,
                   path, disk, tamper, openErr, codec, cap, got>>

\* The process stops: the handle is lost without the flush of a drop, and
\* the file stays as the writes made so far left it; at most once per run.
Crash ==
    /\ open
    /\ ~reopened
    /\ disk' = Put(disk, path, pager.file)
    /\ pager' = ClosedPager
    /\ open' = FALSE
    /\ UNCHANGED <<kv, log, ids, reopened, failed, fresh, path, tamper, openErr, codec,
                   synced, cap, got>>

\* The caller writes the i-th child id of the internal root through
\* get_page_mut, as the tests of the crate build their trees; at most once
\* per run.
WriteChild(kind, i, child) ==
    /\ open
    /\ tamper = "none"
    /\ LET root == pager.root_page_id
           g == get_page_mut(pager, root)
       IN  /\ IsOk(g)
           /\ g.val.kind = BTREE_PAGE_KIND
           /\ g.val.body.node_kind = 2
           /\ i \in 1..Len(g.val.body.children)
           /\ pager' = StorePage(g.p, root, SetChild(g.val, i, child))
    /\ tamper' = kind
    /\ UNCHANGED <<open, kv, log, ids, reopened, failed, fresh,
                   path, disk, openErr, codec, synced, cap, got>>

\* the i-th child id of the internal root is pointed at the root
TamperChildCycle(i) ==
    /\ i \in 1..Len(ChildCycleKinds)
    /\ WriteChild(ChildCycleKinds[i], i, pager.root_page_id)

\* the i-th child id of the internal root is overwritten with 0
TamperChildZero(i) ==
    /\ i \in 1..(max_internal_keys + 1)
    /\ WriteChild("child_zero", i, 0)

\* encode_row(schema, row) on the inputs of the run
EncodeRow ==
    /\ codec.step = "input"
    /\ LET enc == encode_row(codec.schema, RowOf(codec.row))
       IN  codec' = [codec EXCEPT !.step = "encoded",
                                  !.enc_err = enc.err,
                                  !.enc_len = Len(enc.val)]
    /\ UNCHANGED <<pager, open, kv, log, ids, reopened, failed, fresh,
                   path, disk, tamper, openErr, synced, cap, got>>

\* decode_row(schema, bytes) on the bytes that encode_row returned
DecodeRow ==
    /\ codec.step = "encoded"
    /\ codec.enc_err = NoErr
    /\ LET dec == decode_row(codec.schema,
                             encode_row(codec.schema, RowOf(codec.row)).val)
       IN  codec' = [codec EXCEPT !.step = "decoded",
                                  !.dec_err = dec.err,
                                  !.dec_same = (dec.val = RowOf(codec.row))]
    /\ UNCHANGED <<pager, open, kv, log, ids, reopened, failed, fresh,
                   path, disk, tamper, openErr, synced, cap, got>>

\* encode_row(schema, row') on the row that decode_row returned
ReEncodeRow ==
    /\ codec.step = "decoded"
    /\ codec.dec_err = NoErr
    /\ LET enc   == encode_row(codec.schema, RowOf(codec.row))
           again == encode_row(codec.schema, decode_row(codec.schema, enc.val).val)
       IN  codec' = [codec EXCEPT !.step = "reencoded",
                                  !.again_err = again.err,
                                  !.again_same = (again.val = enc.val)]
    /\ UNCHANGED <<pager, open, kv, log, ids, reopened, failed, fresh,
                   path, disk, tamper, openErr, synced, cap, got>>

Next ==
    \/ \E k \in MixKeys, v \in MixVals : PutU64(k, v)
    \/ \E k \in MixKeys : GetU64(k)
    \/ \E t \in TableInputs : CreateTable(t[1], t[2])
    \/ \E name \in TableNames, row \in Rows : InsertRow(name, row)
    \/ \E name \in TableNames, pk \in ReadPks : GetRowByPk(name, pk)
    \/ \E name \in TableNames : ScanTable(name)
    \/ Flush
    \/ Reopen

Spec == Init /\ [][Next]_vars

\* runs that close the file, create and open files at several paths and
\* damage the header of the file at DbPath
NextPath ==
    \/ Close
    \/ \E p \in PathInputs : CreateAt(p)
    \/ \E p \in PathInputs : OpenAt(p)
    \/ \E kind \in HeaderDamage : TamperHeader(kind)

SpecPath == Init /\ [][NextPath]_vars

\* runs that fill the database at DbPath, close it, damage its leaf chain
\* or a row page, and open it again
NextTamper ==
    \/ \E k \in TamperKeys, v \in MixVals : PutU64(k, v)
    \/ CreateTable("a", SchemaU32)
    \/ InsertRow("a", RowU32(7))
    \/ GetRowByPk("a", 1)
    \/ Close
    \/ OpenAt(DbPath)
    \/ \E i, j \in 1..2 : TamperNextLeaf(i, j)
    \/ \E i \in 1..MaxInserts : TamperPkPrefix(i)
    \/ TamperRowPageMagic(1)

SpecTamper == Init /\ [][NextTamper]_vars

\* the state before a row codec run on one of the inputs
InitRow ==
    /\ InitBase
    /\ \E in \in RowInputs : codec = NewCodec(in[1], in[2])
    /\ cap = IdleCap

\* row codec runs: the row is encoded, decoded and encoded again, and it is
\* inserted into a table of its schema
NextRow ==
    \/ EncodeRow
    \/ DecodeRow
    \/ ReEncodeRow
    \/ CreateTable("b", codec.schema)
    \/ InsertRow("b", RowOf(codec.row))
    \/ GetRowByPk("b", 1)

SpecRow == InitRow /\ [][NextRow]_vars

\* runs that write, flush, stop without a flush and open the file again
NextCrash ==
    \/ \E k \in CrashKeys, v \in MixVals : PutU64(k, v)
    \/ CreateTable("a", SchemaU32)
    \/ InsertRow("a", RowU32(7))
    \/ FlushNoted
    \/ Crash
    \/ OpenAt(DbPath)

SpecCrash == Init /\ [][NextCrash]_vars

\* max_leaf_keys() keys are laid out as decode_leaf reads them
FillLeaf ==
    /\ cap.step = "page"
    /\ cap' = [step |-> "leaf", page_bytes |-> cap.page_bytes,
               keys |-> leaf_capacity(cap.page_bytes),
               end_offset |-> leaf_end_offset(leaf_capacity(cap.page_bytes)),
               next_end_offset |-> leaf_end_offset(leaf_capacity(cap.page_bytes) + 1)]
    /\ UNCHANGED <<pager, open, kv, log, ids, reopened, failed, fresh,
                   path, disk, tamper, openErr, codec, synced, got>>

\* max_internal_keys() keys are laid out as decode_internal reads them
FillInternal ==
    /\ cap.step = "page"
    /\ cap' = [step |-> "internal", page_bytes |-> cap.page_bytes,
               keys |-> internal_capacity(cap.page_bytes),
               end_offset |-> internal_end_offset(internal_capacity(cap.page_bytes)),
               next_end_offset |->
                   internal_end_offset(internal_capacity(cap.page_bytes) + 1)]
    /\ UNCHANGED <<pager, open, kv, log, ids, reopened, failed, fresh,
                   path, disk, tamper, openErr, codec, synced, got>>

\* the state before a node capacity run on one of the page sizes
InitCap ==
    /\ InitBase
    /\ codec = IdleCodec
    /\ \E n \in PageSizes : cap = [step |-> "page", page_bytes |-> n]

\* node capacity runs
NextCap ==
    \/ FillLeaf
    \/ FillInternal

SpecCap == InitCap /\ [][NextCap]_vars

\* search_u64(&mut pager, root, k), after which the caller notes what it
\* returned
\* from the root page of the header, or from page 0
SearchU64(zero, k) ==
    /\ open
    /\ LET root == IF zero THEN 0 ELSE pager.root_page_id
           r == search_u64(pager, root, k)
       IN  /\ pager' = r.p
           /\ got' = [step |-> "searched", root |-> root, key |-> k,
                      err |-> r.err, val |-> r.val]
    /\ UNCHANGED <<open, kv, log, ids, reopened, failed, fresh,
                   path, disk, tamper, openErr, codec, synced, cap>>

\* Db::put_u64(k, v) on a file that was not damaged: insert_into has no
\* depth guard and does not return on a cycle
PutUndamaged(k, v) ==
    /\ tamper = "none"
    /\ PutU64(k, v)

\* runs that fill the tree, overwrite a child pointer of the root and
\* search, and close and open the file
NextSearch ==
    \/ \E k \in TamperKeys, v \in MixVals : PutUndamaged(k, v)
    \/ \E zero \in BOOLEAN, k \in SearchKeys : SearchU64(zero, k)
    \/ Close
    \/ OpenAt(DbPath)
    \/ \E i \in 1..2 : TamperChildCycle(i)
    \/ \E i \in 1..2 : TamperChildZero(i)

SpecSearch == Init /\ [][NextSearch]_vars

\* Pager::get_page(id) by a caller that holds the pager
PagerGetPage(id) ==
    /\ open
    /\ pager' = get_page(pager, id).p
    /\ UNCHANGED <<open, kv, log, ids, reopened, failed, fresh>>
    /\ UNCHANGED aux

\* Pager::get_page_mut(id) by a caller that holds the pager and writes
\* nothing through the reference
PagerGetPageMut(id) ==
    /\ open
    /\ pager' = get_page_mut(pager, id).p
    /\ UNCHANGED <<open, kv, log, ids, reopened, failed, fresh>>
    /\ UNCHANGED aux

\* Pager::allocate_btree_page()
PagerAllocateBtree ==
    /\ open
    /\ pager.page_count < MaxPageCount
    /\ pager' = allocate_btree_page(pager).p
    /\ UNCHANGED <<open, kv, log, ids, reopened, failed, fresh>>
    /\ UNCHANGED aux

\* Pager::allocate_row_page()
PagerAllocateRow ==
    /\ open
    /\ pager.page_count < MaxPageCount
    /\ pager' = allocate_row_page(pager).p
    /\ UNCHANGED <<open, kv, log, ids, reopened, failed, fresh>>
    /\ UNCHANGED aux

\* runs of a caller that holds the pager: pages are fetched, marked dirty,
\* allocated and flushed, and the tree is written through put_u64
NextPager ==
    \/ \E k \in CrashKeys, v \in PutVals : PutU64(k, v)
    \/ \E id \in 0..MaxPageCount : PagerGetPage(id)
    \/ \E id \in 0..MaxPageCount : PagerGetPageMut(id)
    \/ PagerAllocateBtree
    \/ PagerAllocateRow
    \/ Flush

SpecPager == Init /\ [][NextPager]_vars

\* what the caller notes of a read that returned r on the pager p: whether
\* it fetched a page and whether a page was dirty when it was called
ReadNote(op, p, r) ==
    [step |-> "read", op |-> op, ok |-> IsOk(r),
     loaded |-> (DOMAIN r.p.cache) # (DOMAIN p.cache), dirty |-> p.dirty # {}]

\* Db::get_u64(k), noted
ReadU64(k) ==
    /\ open
    /\ pager' = get_u64(pager, k).p
    /\ got' = ReadNote("get_u64", pager, get_u64(pager, k))
    /\ UNCHANGED <<open, kv, log, ids, reopened, failed, fresh,
                   path, disk, tamper, openErr, codec, synced, cap>>

\* Db::get_row_by_pk(table_name, pk), noted
ReadRowByPk(table_name, pk) ==
    /\ open
    /\ pager' = DbGetRowByPk(pager, table_name, pk).p
    /\ got' = ReadNote("get_row_by_pk", pager, DbGetRowByPk(pager, table_name, pk))
    /\ UNCHANGED <<open, kv, log, ids, reopened, failed, fresh,
                   path, disk, tamper, openErr, codec, synced, cap>>

\* Db::scan_table(table_name), noted
ReadScanTable(table_name) ==
    /\ open
    /\ pager' = DbScanTable(pager, table_name).p
    /\ got' = ReadNote("scan_table", pager, DbScanTable(pager, table_name))
    /\ UNCHANGED <<open, kv, log, ids, reopened, failed, fresh,
                   path, disk, tamper, openErr, codec, synced, cap>>

\* Db::get_table(name), noted
ReadGetTable(name) ==
    /\ open
    /\ pager' = DbGetTable(pager, name).p
    /\ got' = ReadNote("get_table", pager, DbGetTable(pager, name))
    /\ UNCHANGED <<open, kv, log, ids, reopened, failed, fresh,
                   path, disk, tamper, openErr, codec, synced, cap>>

\* Db::list_tables(), noted
ReadListTables ==
    /\ open
    /\ pager' = DbListTables(pager).p
    /\ got' = ReadNote("list_tables", pager, DbListTables(pager))
    /\ UNCHANGED <<open, kv, log, ids, reopened, failed, fresh,
                   path, disk, tamper, openErr, codec, synced, cap>>

\* runs that write and reopen, and read in between
NextRead ==
    \/ CreateTable("a", SchemaU32)
    \/ InsertRow("a", RowU32(7))
    \/ Reopen
    \/ \E k \in MixKeys : ReadU64(k)
    \/ \E name \in TableNames : ReadRowByPk(name, 1)
    \/ ReadScanTable("a")
    \/ ReadGetTable("a")
    \/ ReadListTables

SpecRead == Init /\ [][NextRead]_vars

\* rows handed to insert_row in the runs on its arguments: a U32, a Null, two
\* values, a U64, and Bytes whose record is one byte too long
ArgRows ==
    {RowU32(7), RowNull, RowU32(7) \o RowU32(7), <<[tag |-> "U64", v |-> <<0, 0, 0, 7>>]>>,
     RowOf(<<[tag |-> "Bytes", v |-> <<>>, pad |-> FitLen + 1]>>)}

\* runs on the arguments of insert_row: tables "a" (U32 not null) and "b"
\* (Bytes nullable) are created, rows of every kind are inserted into both,
\* and the file is flushed and opened again
NextArgs ==
    \/ \E t \in TableInputs : CreateTable(t[1], t[2])
    \/ \E name \in TableNames, row \in ArgRows : InsertRow(name, row)
    \/ Flush

SpecArgs == Init /\ [][NextArgs]_vars

\* put-only runs on a created database
NextPut ==
    \/ \E k \in StressKeys, v \in PutVals : PutU64(k, v)
    \/ \E k \in StressKeys : GetU64(k)

SpecPut == Init /\ [][NextPut]_vars

\* keys of the overwrite runs: enough to split the root leaf
OverKeys == {ToU32(1), ToU32(2), ToU32(3), ToU32(4)}

\* Db::put_u64(k, v) on a key that Db::get_u64 finds, noted
OverwriteU64(k, v) ==
    /\ open
    /\ LET before == get_u64(pager, k)
           r == put_u64(pager, k, v)
       IN  /\ IsOk(before) /\ before.val # None
           /\ pager' = r.p
           /\ kv' = IF IsOk(r) THEN Put(kv, k, v) ELSE kv
           /\ failed' = IF IsOk(r) THEN failed ELSE failed \cup {"other"}
           /\ got' = [step |-> "overwrote", key |-> k, old |-> before.val[1],
                      new |-> v, ok |-> IsOk(r)]
    /\ fresh' = FALSE
    /\ UNCHANGED <<open, log, ids, reopened>>
    /\ UNCHANGED <<path, disk, tamper, openErr, codec, synced, cap>>

\* put-only runs in which the overwrites are noted
NextOver ==
    \/ \E k \in OverKeys, v \in PutVals : PutU64(k, v)
    \/ \E k \in OverKeys, v \in PutVals : OverwriteU64(k, v)

SpecOver == Init /\ [][NextOver]_vars

\* the length of a record that fills half of an empty row page and two bytes
HalfLen == (PAGE_SIZE - 32) \div 2 - 1

\* lengths of the records of the row store runs: empty, short, and one of
\* which a page holds one only
StoreLens == {0, 1, HalfLen}

\* lengths of the record that is tried in every state of a run: those and
\* the longest that append_row accepts
TryLens == StoreLens \cup {ROW_MAX_LEN}

\* the tail page and the records of the row store runs: each record is the
\* pointer append_row returned and the bytes it was given
StoreLast == IF got.step = "rows" THEN got.last ELSE 0
StoreRecs == IF got.step = "rows" THEN got.recs ELSE <<>>

\* the n-th record of a run: len bytes n
RecordBytes(n, len) == [i \in 1..len |-> n]

\* RowStore::append_row(&mut pager, last_row_page, row_bytes), after which
\* the caller keeps the pointer and the tail page id as table::insert_row does
AppendRow(len) ==
    /\ open
    /\ Len(StoreRecs) <= MaxInserts
    /\ LET bytes == RecordBytes(Len(StoreRecs) + 1, len)
           r == append_row(pager, StoreLast, bytes)
       IN  /\ pager' = r.p
           /\ got' = IF IsOk(r)
                     THEN [step |-> "rows", last |-> r.val.last_row_page,
                           recs |-> Append(StoreRecs, [ptr |-> r.val.ptr, bytes |-> bytes])]
                     ELSE got
    /\ fresh' = FALSE
    /\ UNCHANGED <<open, kv, log, ids, reopened, failed>>
    /\ UNCHANGED <<path, disk, tamper, openErr, codec, synced, cap>>

\* row store runs on a created database
NextStore ==
    \/ \E len \in StoreLens : AppendRow(len)
    \/ Flush

SpecStore == Init /\ [][NextStore]_vars

\* u32::MAX as <<hi, lo>>
U32_MAX == <<65535, 65535>>

\* counters of the pk runs: the last one that can be advanced and u32::MAX
HighPks == {<<65535, 65534>>, U32_MAX}

\* Pager::write_catalog of the catalog in which the pk counter of the table
\* is raised to v, as a file that has seen that many inserts holds it
WriteNextPk(name, v) ==
    /\ open
    /\ LET rc == read_catalog(pager)
       IN  /\ IsOk(rc)
           /\ get_by_name(rc.val, name) # {}
           /\ LET ti == FirstByName(rc.val, name)
                  w == write_catalog(rc.p, [rc.val EXCEPT !.tables[ti].next_pk = v])
              IN  /\ U32Less(rc.val.tables[ti].next_pk, v)
                  /\ IsOk(w)
                  /\ pager' = w.p
    /\ fresh' = FALSE
    /\ UNCHANGED <<open, kv, log, ids, reopened, failed>>
    /\ UNCHANGED aux

\* Db::insert_row(name, row), after which the caller notes the result and
\* the counter the table had
InsertNoted(name, row) ==
    /\ open
    /\ pager.page_count < MaxPageCount
    /\ LET t == DbGetTable(pager, name)
           r == DbInsertRow(pager, name, row)
       IN  /\ IsOk(t) /\ t.val # None
           /\ pager' = r.p
           /\ got' = [step |-> "inserted", err |-> r.err, pk |-> r.val,
                      was |-> t.val[1].next_pk]
    /\ fresh' = FALSE
    /\ UNCHANGED <<open, kv, log, ids, reopened, failed>>
    /\ UNCHANGED <<path, disk, tamper, openErr, codec, synced, cap>>

\* runs in which the pk counter of a table is near its end
NextPk ==
    \/ CreateTable("a", SchemaU32)
    \/ \E v \in HighPks : WriteNextPk("a", v)
    \/ InsertNoted("a", RowU32(7))
    \/ Flush

SpecPk == Init /\ [][NextPk]_vars

\* tables and pks of the key runs: the ends of the range, both sides of the
\* limb boundary and of the sign bit, and the pks of the first rows
KeyTables == {1, 65536}
KeyPks == {<<hi, lo>> : hi \in {0, 1, 32767, 32768, 65535},
                         lo \in {0, 1, 2, 32768, 65534, 65535}}

\* the state before a key run on one of the pks
InitKey ==
    /\ InitBase
    /\ codec = IdleCodec
    /\ \E pk \in KeyPks : cap = [step |-> "pk", pk |-> pk]

\* composite_key(table_id, pk) of the pk of the run
MixKey(table_id) ==
    /\ cap.step = "pk"
    /\ cap' = [step |-> "key", table |-> table_id, pk |-> cap.pk,
               key |-> composite_key_u32(ToU32(table_id), cap.pk)]
    /\ UNCHANGED <<pager, open, kv, log, ids, reopened, failed, fresh,
                   path, disk, tamper, openErr, codec, synced, got>>

\* key runs, and inserts into a table whose counter starts at 1 or is high
NextKey ==
    \/ \E t \in KeyTables : MixKey(t)
    \/ CreateTable("a", SchemaU32)
    \/ WriteNextPk("a", <<65535, 65534>>)
    \/ InsertNoted("a", RowU32(7))

SpecKey == InitKey /\ [][NextKey]_vars

(***************************************************************************)
(* Properties.                                                             *)
(***************************************************************************)
\* the payload of the catalog page as the handle sees it
CatalogBody(p) == get_page(p, CATALOG_PAGE_ID).val.body

\* C1: on a created database every put_u64 call succeeds, and afterwards
\* get_u64(k) returns the value of the most recent put_u64 for k and absent
\* for every key that was never put.
C1_PutThenGet ==
    /\ failed = {}
    /\ \A k \in StressKeys :
          LET g == get_u64(pager, k)
          IN  /\ IsOk(g)
              /\ g.val = (IF k \in DOMAIN kv THEN Some(kv[k]) ELSE None)

\* C2: after successful create_table / insert_row / put_u64 calls followed
\* by a flush and a reopen, open succeeds, every inserted row is returned by
\* get_row_by_pk with its pk and value, and each table's next_pk is greater
\* than every pk it has assigned.
C2_ReopenKeepsRows ==
    [][(Reopen /\ failed = {}) =>
          /\ open'
          /\ \A i \in 1..Len(log) :
                LET e == log[i]
                    r == DbGetRowByPk(pager', e.table, e.pk)
                    t == DbGetTable(pager', e.table)
                IN  /\ IsOk(r) /\ r.val = Some(e.row)
                    /\ IsOk(t) /\ t.val # None
                    /\ U32Less(ToU32(e.pk), t.val[1].next_pk)]_vars

\* C3: for each table the k-th successful insert_row returns pk = k, so the
\* pks of one table are strictly increasing and never repeated, across
\* flush and reopen and whatever is inserted into other tables.
C3_PkSequence ==
    \A i \in 1..Len(log) :
       log[i].pk = Cardinality({j \in 1..i : log[j].table = log[i].table})

\* a table received pk 1 before a reopen and pk 2 after it
C3_Witness ==
    \E i, j \in 1..Len(log) :
       /\ log[i].table = log[j].table
       /\ log[i].pk = 1 /\ log[j].pk = 2
       /\ ~log[i].reopened /\ log[j].reopened

\* C4: scan_table(T) returns exactly one (pk, row) entry for every
\* successful insert_row into T and nothing else, in ascending pk order,
\* each pk with the row inserted under it.
C4_ScanExact ==
    open =>
      \A name \in TableNames :
         (\E i \in 1..Len(ids) : ids[i].name = name) =>
            LET r   == DbScanTable(pager, name)
                sel == SelectSeq(log, LAMBDA e : e.table = name)
            IN  /\ IsOk(r)
                /\ r.val = [i \in 1..Len(sel) |-> <<sel[i].pk, sel[i].row>>]

\* C5: get_row_by_pk(T, pk) returns the row insert_row stored under pk in T
\* and absent, not an error, for every pk T has not assigned, whatever was
\* inserted into other tables.  Stated for runs without any put_u64 call.
C5_GetRowByPk ==
    (open /\ kv = <<>>) =>
      \A name \in TableNames, pk \in ProbePks :
         (\E i \in 1..Len(ids) : ids[i].name = name) =>
            LET r == DbGetRowByPk(pager, name, pk)
                stored == {i \in 1..Len(log) : log[i].table = name /\ log[i].pk = pk}
            IN  /\ IsOk(r)
                /\ \A i \in stored : r.val = Some(log[i].row)
                /\ stored = {} => r.val = None

\* C6: once insert_row has returned pk for table T, the value stored in the
\* tree under composite_key(T.id, pk) never changes.
C6_RowEntryStable ==
    open =>
      \A i \in 1..Len(log) :
         get_u64(pager, composite_key(log[i].tid, log[i].pk)).val = log[i].packed

\* C7: create produces exactly three pages: the header with root = 1 and
\* page_count = 3, an empty leaf at id 1, an empty catalog at id 2 with
\* next_table_id = 1; after flush the file is 12288 bytes long and open on
\* it succeeds.
C7_CreateLayout ==
    fresh =>
      /\ open
      /\ pager.page_count = 3 /\ pager.root_page_id = 1
      /\ Len(pager.file) = 3
      /\ pager.file[1].root_page_id = 1 /\ pager.file[1].page_count = 3
      /\ LET leaf == get_page(pager, 1).val
         IN  /\ leaf.kind = BTREE_PAGE_KIND
             /\ decode(leaf, 3).err = NoErr
             /\ decode(leaf, 3).val.kind = "Leaf"
             /\ decode(leaf, 3).val.keys = <<>>
             /\ decode(leaf, 3).val.next_leaf = 0
      /\ get_page(pager, 2).val.kind = META_PAGE_KIND
      /\ IsOk(read_catalog(pager))
      /\ read_catalog(pager).val = [next_table_id |-> 1, tables |-> <<>>]
      /\ LET f == flush(pager).file
         IN  file_len(f) = 12288 /\ IsOk(DbOpen(f))

\* a created database was flushed, closed and opened again
C7_Witness == fresh /\ reopened /\ open /\ file_len(pager.file) = 12288

\* C8: every successful create_table returns the next id of 1, 2, 3, ...,
\* greater than every id returned before, also across flush and reopen, and
\* the new table starts with next_pk = 1 and last_row_page = 0.
C8_TableIds ==
    [][\A t \in TableInputs :
          (CreateTable(t[1], t[2]) /\ Len(ids') > Len(ids)) =>
             LET n == Len(ids')
                 d == CatalogBody(pager').tables
             IN  /\ ids'[n].id = n
                 /\ \A j \in 1..(n - 1) : ids'[j].id < ids'[n].id
                 /\ \E i \in 1..Len(d) :
                       /\ d[i].name = t[1] /\ d[i].id = n
                       /\ d[i].next_pk = ToU32(1) /\ d[i].last_row_page = 0]_vars

\* a second table was created after a reopen
C8_Witness ==
    /\ Len(ids) = 2
    /\ ~ids[1].reopened /\ ids[2].reopened
    /\ ids[2].id = 2

\* C9: create_table with a name that already exists returns InvalidArgument
\* and leaves the catalog unchanged: the same tables and the same
\* next_table_id.
C9_DuplicateRejected ==
    open =>
      \A t \in TableInputs :
         (\E i \in 1..Len(CatalogBody(pager).tables) :
             CatalogBody(pager).tables[i].name = t[1]) =>
            LET r == DbCreateTable(pager, t[1], t[2])
            IN  /\ r.err.kind = "InvalidArgument"
                /\ CatalogBody(r.p) = CatalogBody(pager)

\* a create_table call with an existing name was rejected and a later
\* create_table received the next id
C9_Witness ==
    /\ "create_table.duplicate" \in failed
    /\ Len(ids) = 2
    /\ Len(CatalogBody(pager).tables) = 2

\* C10: the catalog's table names are pairwise distinct, its table ids are
\* pairwise distinct and nonzero, every next_pk >= 1, and every
\* last_row_page is 0 or the id of an existing row page.
C10_CatalogInvariants ==
    open =>
      LET ts == CatalogBody(pager).tables
      IN  /\ \A i, j \in 1..Len(ts) :
                i < j => (ts[i].name # ts[j].name /\ ts[i].id # ts[j].id)
          /\ \A i \in 1..Len(ts) :
                /\ ts[i].id # 0
                /\ ~U32Less(ts[i].next_pk, ToU32(1))
                /\ \/ ts[i].last_row_page = 0
                   \/ /\ ts[i].last_row_page < pager.page_count
                      /\ get_page(pager, ts[i].last_row_page).val.kind = ROW_PAGE_KIND

\* two tables exist, both hold rows, and the file was reopened
C10_Witness ==
    /\ open /\ reopened
    /\ Len(CatalogBody(pager).tables) = 2
    /\ \A i \in 1..2 : CatalogBody(pager).tables[i].last_row_page # 0

\* C11: Db::open on a file whose leaf chain revisits a leaf (a next_leaf
\* pointing back to an earlier leaf of the chain or to the leaf itself)
\* returns Corruption with context btree.leaf_cycle and no handle.
C11_LeafCycleFailsOpen ==
    tamper = "next_leaf" =>
      /\ ~open
      /\ DbOpenAt(disk, DbPath).err = E("Corruption", "btree.leaf_cycle")
      /\ openErr \in {NoErr, E("Corruption", "btree.leaf_cycle")}

\* the next_leaf of a leaf of a tree that had split was redirected and
\* open was called on the file
C11_Witness ==
    /\ tamper = "next_leaf"
    /\ openErr = E("Corruption", "btree.leaf_cycle")
    /\ Len(disk[DbPath]) > 3
    /\ Len(LeafChainFrom(disk[DbPath], 1, <<>>)) = 2

\* the record that the tree entry of (table, pk) points to: [found, bytes]
PointedRecord(p, table_name, pk) ==
    LET cat == read_catalog(p)
        table == cat.val.tables[FirstByName(cat.val, table_name)]
        s == search_u64(cat.p, cat.p.root_page_id, composite_key(table.id, pk))
        rd == read_row(s.p, unpack(s.val[1]))
    IN  IF IsOk(cat) /\ get_by_name(cat.val, table_name) # {}
           /\ IsOk(s) /\ s.val # None /\ IsOk(rd) /\ Len(rd.val) >= 4
        THEN [found |-> TRUE, bytes |-> rd.val]
        ELSE [found |-> FALSE, bytes |-> <<>>]

\* C12: get_row_by_pk(T, pk) never returns a row whose stored 4-byte pk
\* prefix differs from pk; when the record the tree points to carries
\* another prefix the call returns Corruption with context
\* table.pk_mismatch.
C12_PkPrefixChecked ==
    open =>
      \A pk \in ProbePks :
         LET r   == DbGetRowByPk(pager, "a", pk)
             rec == PointedRecord(pager, "a", pk)
         IN  /\ (IsOk(r) /\ r.val # None) =>
                   /\ rec.found
                   /\ U32FromLe(SubSeq(rec.bytes, 1, 4)) = ToU32(pk)
             /\ (rec.found /\ U32FromLe(SubSeq(rec.bytes, 1, 4)) # ToU32(pk)) =>
                   r.err = E("Corruption", "table.pk_mismatch")

\* the pk prefix of a stored row was changed on disk, the file was opened
\* and the row is looked up
C12_Witness ==
    /\ tamper = "pk_prefix" /\ open
    /\ \E pk \in 1..MaxInserts :
          /\ PointedRecord(pager, "a", pk).found
          /\ DbGetRowByPk(pager, "a", pk).err = E("Corruption", "table.pk_mismatch")

\* the kinds of damage to parts of the file that the validator of open walks
StructuralDamage == {"next_leaf", "rowpage_magic"}

\* the reads of the handle that report Corruption or Unsupported
BadReads(p) ==
    {k \in TamperKeys : get_u64(p, k).err.kind \in {"Corruption", "Unsupported"}}
    \cup {pk \in 1..MaxInserts :
            DbGetRowByPk(p, "a", pk).err.kind \in {"Corruption", "Unsupported"}}
    \cup {n \in {0} : DbScanTable(p, "a").err.kind \in {"Corruption", "Unsupported"}}

C14_BadHeaderRejected ==
    tamper \in HeaderDamage =>
      /\ DbPath \in DOMAIN disk
      /\ open => path # DbPath
      /\ DbOpenAt(disk, DbPath).err.kind = HeaderErrKind(tamper)
      /\ DbOpenAt(disk, DbPath).p = ClosedPager

\* the version field of the header was set to 2 and open refused the file
C14_Witness ==
    /\ tamper = "version_high"
    /\ openErr = E("InvalidVersion", "")
    /\ ~open

\* the path ends in the four characters .wal
EndsInWal(p) == Len(p) >= 4 /\ SubSeq(p, Len(p) - 3, Len(p)) = <<".">> \o WAL_EXT

\* the final component of the path, trailing separators ignored, is a
\* nonempty stem followed by .wal
WalFileName(p) ==
    LET q == StripTrailingSep(p)
        name == SubSeq(q, LastIndexOf(q, "/") + 1, Len(q))
    IN  Len(name) > 4 /\ EndsInWal(name)

\* C15 as stated: create and open refuse the empty path and every path
\* ending in .wal, so no file is ever created or opened at such a path.
C15_WalPathsRefused ==
    \A p \in (DOMAIN disk) \cup (IF open THEN {path} ELSE {}) :
       Len(p) > 0 /\ ~EndsInWal(p)

\* C15, amended: create and open refuse the empty path with InvalidArgument
\* and every path whose final component is a nonempty stem followed by .wal
\* with Unsupported, before any file is created, truncated or read.
C15_ReservedPathsRefused ==
    [][\A p \in PathInputs :
          ((CreateAt(p) \/ OpenAt(p)) /\ (Len(p) = 0 \/ WalFileName(p))) =>
             /\ openErr' = IF Len(p) = 0 THEN E("InvalidArgument", "path")
                           ELSE E("Unsupported", "wal")
             /\ UNCHANGED <<disk, pager, open, path>>]_vars

\* a call with a path of extension wal was refused while a database file
\* exists at the path .wal
C15_Witness ==
    /\ openErr = E("Unsupported", "wal")
    /\ ~open
    /\ <<".">> \o WAL_EXT \in DOMAIN disk

\* C16: insert_row of a row whose stored record (4-byte pk prefix plus
\* encoded row) is longer than 3500 bytes returns Unsupported, never
\* Corruption, and a record of at most 3500 bytes is not refused.
C16_RecordSizeGuard ==
    (open /\ get_by_name(CatalogBody(pager), "b") # {}) =>
       LET enc == encode_row(codec.schema, RowOf(codec.row))
           r   == DbInsertRow(pager, "b", RowOf(codec.row))
       IN  /\ enc.err = NoErr
           /\ 4 + Len(enc.val) > ROW_MAX_LEN => r.err = E("Unsupported", "row.too_large")
           /\ 4 + Len(enc.val) <= ROW_MAX_LEN => IsOk(r)

\* insert_row refused a row whose record is one byte over the guard
C16_Witness ==
    /\ "insert_row.too_large" \in failed
    /\ codec.step = "encoded"
    /\ 4 + codec.enc_len = ROW_MAX_LEN + 1

\* C17: for every schema S and every row R conforming to S, encode_row
\* succeeds, decode_row(S, encode_row(S, R)) = R, and encoding the decoded
\* row gives the same bytes.
C17_RowRoundTrip ==
    /\ codec.step \in {"encoded", "decoded", "reencoded"} => codec.enc_err = NoErr
    /\ codec.step \in {"decoded", "reencoded"} =>
          codec.dec_err = NoErr /\ codec.dec_same
    /\ codec.step = "reencoded" => codec.again_err = NoErr /\ codec.again_same

\* C18: a handle dropped while changes are unflushed is flushed by the
\* drop, so that a reopen succeeds and returns every key put and every row
\* inserted before the drop.
C18_DropFlushes ==
    [][(Reopen /\ pager.dirty # {}) =>
          /\ open'
          /\ \A k \in DOMAIN kv :
                LET g == get_u64(pager', k)
                IN  IsOk(g) /\ g.val = Some(kv[k])
          /\ \A i \in 1..Len(log) :
                LET r == DbGetRowByPk(pager', log[i].table, log[i].pk)
                IN  IsOk(r) /\ r.val = Some(log[i].row)]_vars

\* the node stored on page id, as the handle sees it: [err, val]
NodeAt(p, id) ==
    LET g == get_page(p, id)
    IN  IF IsOk(g) THEN decode(g.val, p.page_count)
        ELSE [err |-> g.err, val |-> <<>>]

\* put_u64(k, _) descends from a full internal root into a full leaf that
\* does not hold k, so the leaf splits and the root overflows
RootOverflows(p, k) ==
    LET root == NodeAt(p, p.root_page_id)
        leaf == NodeAt(p, root.val.children[ChildIndex(root.val.keys, k)])
    IN  /\ root.err = NoErr /\ root.val.kind = "Internal"
        /\ root.val.num_keys = max_internal_keys
        /\ leaf.err = NoErr /\ leaf.val.kind = "Leaf"
        /\ leaf.val.num_keys = max_leaf_keys
        /\ KeyIndex(leaf.val.keys, k) = {}

\* C19: when an internal node overflows it is split at mid = num_keys / 2:
\* the key at mid is promoted and kept in neither half, the keys below mid
\* and children 0..=mid stay on the original page, the rest go to a new
\* page, and the insert succeeds with both halves holding one more child
\* than keys.
C19_InternalSplit ==
    [][\A k \in StressKeys, v \in PutVals :
          (PutU64(k, v) /\ RootOverflows(pager, k)) =>
             /\ IsOk(put_u64(pager, k, v))
             /\ LET mid   == (max_internal_keys + 1) \div 2
                    left  == NodeAt(pager', pager.root_page_id)
                    top   == NodeAt(pager', pager'.root_page_id)
                    right == NodeAt(pager', top.val.children[2])
                IN  /\ left.err = NoErr /\ left.val.kind = "Internal"
                    /\ left.val.num_keys = mid
                    /\ Len(left.val.children) = mid + 1
                    /\ top.err = NoErr /\ top.val.kind = "Internal"
                    /\ top.val.num_keys = 1
                    /\ top.val.children[1] = pager.root_page_id
                    /\ right.err = NoErr /\ right.val.kind = "Internal"
                    /\ right.val.num_keys = max_internal_keys - mid
                    /\ Len(right.val.children) = right.val.num_keys + 1
                    /\ \A i \in 1..mid : U32Less(left.val.keys[i], top.val.keys[1])
                    /\ \A i \in 1..right.val.num_keys :
                          U32Less(top.val.keys[1], right.val.keys[i])]_vars

\* C20: a put_u64 that returns an error leaves the tree as it was: every
\* key reads as before the call and no cached tree page has a zeroed
\* payload.
C20_FailedPutKeepsTree ==
    [][\A k \in StressKeys, v \in PutVals :
          (PutU64(k, v) /\ ~IsOk(put_u64(pager, k, v))) =>
             /\ \A key \in StressKeys :
                   /\ get_u64(pager', key).err = get_u64(pager, key).err
                   /\ get_u64(pager', key).val = get_u64(pager, key).val
             /\ \A id \in DOMAIN pager'.cache :
                   pager'.cache[id].kind = BTREE_PAGE_KIND =>
                      pager'.cache[id].body.node_kind # 0]_vars

\* the page with this id as the handle sees it: the cached copy if there is
\* one, the page of the file otherwise
PageOf(p, id) ==
    IF id \in DOMAIN p.cache THEN p.cache[id] ELSE p.file[id + 1]

\* the child ids stored on page id, none if it is not an internal node
ChildrenOf(p, id) ==
    IF id = 0 \/ id >= p.page_count \/ id >= Len(p.file) THEN {}
    ELSE LET pg == PageOf(p, id)
         IN  IF pg.kind = BTREE_PAGE_KIND /\ pg.body.node_kind = 2
             THEN {pg.body.children[i] : i \in 1..Len(pg.body.children)}
             ELSE {}

\* the page ids reachable from the ids of frontier through child pointers
RECURSIVE ReachFrom(_, _, _)
ReachFrom(p, frontier, seen) ==
    IF frontier \subseteq seen THEN seen
    ELSE ReachFrom(p, UNION {ChildrenOf(p, id) : id \in frontier} \ (seen \cup frontier),
                   seen \cup frontier)

TreePages(p) == ReachFrom(p, {p.root_page_id}, {})

\* page id holds a well formed node
WellFormedNode(p, id) ==
    /\ id > 0 /\ id < p.page_count /\ id < Len(p.file)
    /\ LET pg == PageOf(p, id)
           b  == pg.body
       IN  /\ pg.kind = BTREE_PAGE_KIND
           /\ b.node_kind \in {1, 2}
           /\ b.num_keys = Len(b.keys)
           /\ validate_sorted_unique(b.keys)
           /\ b.node_kind = 1 =>
                 /\ b.num_keys <= max_leaf_keys
                 /\ Len(b.values) = b.num_keys
           /\ b.node_kind = 2 =>
                 /\ b.num_keys <= max_internal_keys
                 /\ Len(b.children) = b.num_keys + 1
                 /\ \A i \in 1..Len(b.children) :
                       b.children[i] > 0 /\ b.children[i] < p.page_count

\* C21: after any sequence of put_u64 calls every node reachable from the
\* root is well formed: strictly increasing keys, at most the capacity of
\* its kind, and an internal node has num_keys + 1 children with ids in
\* (0, page_count).
C21_NodesWellFormed ==
    open => \A id \in TreePages(pager) : WellFormedNode(pager, id)

\* the id of the leaf that an insert of key k descends to from page id
RECURSIVE LeafIdFor(_, _, _, _)
LeafIdFor(p, id, k, depth) ==
    LET n == NodeAt(p, id)
    IN  IF depth > MAX_DEPTH \/ n.err # NoErr THEN 0
        ELSE IF n.val.kind = "Leaf" THEN id
        ELSE LeafIdFor(p, n.val.children[ChildIndex(n.val.keys, k)], k, depth + 1)

\* put_u64(k, _) reaches a leaf that is full and does not hold k
LeafOverflows(p, k) ==
    LET id == LeafIdFor(p, p.root_page_id, k, 0)
    IN  /\ id # 0
        /\ NodeAt(p, id).val.num_keys = max_leaf_keys
        /\ KeyIndex(NodeAt(p, id).val.keys, k) = {}

\* C22: when an insert makes a leaf exceed its capacity the leaf is split
\* at mid = total / 2: the original page keeps the first mid keys with their
\* values, a newly allocated page receives the rest, the promoted separator
\* is the first key of the right leaf, the left leaf's next_leaf is the new
\* page id and the right leaf's next_leaf is the one the leaf had before.
C22_LeafSplit ==
    [][\A k \in StressKeys, v \in PutVals :
          (PutU64(k, v) /\ LeafOverflows(pager, k)) =>
             LET id    == LeafIdFor(pager, pager.root_page_id, k, 0)
                 old   == NodeAt(pager, id).val
                 pos   == InsertPos(old.keys, k)
                 keys  == InsertAt(old.keys, pos, k)
                 vals  == InsertAt(old.values, pos, v)
                 mid   == Len(keys) \div 2
                 new   == pager.page_count
                 left  == NodeAt(pager', id)
                 right == NodeAt(pager', new)
                 sp    == split_leaf(pager, id,
                             [old EXCEPT !.keys = keys, !.values = vals,
                                         !.num_keys = Len(keys)])
             IN  /\ left.err = NoErr /\ left.val.kind = "Leaf"
                 /\ left.val.keys = SubSeq(keys, 1, mid)
                 /\ left.val.values = SubSeq(vals, 1, mid)
                 /\ left.val.next_leaf = new
                 /\ right.err = NoErr /\ right.val.kind = "Leaf"
                 /\ PageOf(pager', new).kind = BTREE_PAGE_KIND
                 /\ right.val.keys = SubSeq(keys, mid + 1, Len(keys))
                 /\ right.val.values = SubSeq(vals, mid + 1, Len(keys))
                 /\ right.val.next_leaf = old.next_leaf
                 /\ IsOk(sp)
                 /\ sp.val.promoted_key = right.val.keys[1]
                 /\ sp.val.right = new]_vars

\* a leaf was split in the middle of the chain: the root is internal, its
\* first two children are leaves, the first points at the second, the
\* second at a third, and the first separator is the second leaf's first
\* key
C22_Witness ==
    /\ open
    /\ LET root == NodeAt(pager, pager.root_page_id)
       IN  /\ root.err = NoErr /\ root.val.kind = "Internal"
           /\ root.val.num_keys >= 2
           /\ LET l == NodeAt(pager, root.val.children[1])
                  r == NodeAt(pager, root.val.children[2])
              IN  /\ l.err = NoErr /\ r.err = NoErr
                  /\ l.val.kind = "Leaf" /\ r.val.kind = "Leaf"
                  /\ l.val.next_leaf = root.val.children[2]
                  /\ r.val.next_leaf = root.val.children[3]
                  /\ root.val.keys[1] = r.val.keys[1]

\* put_u64(k, _) splits the root: the root is a full leaf that does not
\* hold k, or a full internal node above a full leaf that does not hold k
RootSplits(p, k) ==
    LET root == NodeAt(p, p.root_page_id)
    IN  /\ root.err = NoErr
        /\ \/ root.val.kind = "Leaf" /\ LeafOverflows(p, k)
           \/ RootOverflows(p, k)

\* C23: when an insert splits the root, a new kind-2 page is allocated and
\* written as an internal node whose children are the old root and its new
\* right sibling and whose only key is the promoted separator; when put_u64
\* returns, the pager's root_page_id and the header on disk name that page,
\* and it is still the root after flush and reopen.
C23_RootSplit ==
    [][\A k \in StressKeys, v \in PutVals :
          (PutU64(k, v) /\ RootSplits(pager, k)) =>
             LET old  == pager.root_page_id
                 new  == pager'.root_page_id
                 top  == NodeAt(pager', new)
                 back == DbOpen(flush(pager').file)
             IN  /\ IsOk(put_u64(pager, k, v))
                 /\ new >= pager.page_count /\ new < pager'.page_count
                 /\ PageOf(pager', new).kind = BTREE_PAGE_KIND
                 /\ top.err = NoErr /\ top.val.kind = "Internal"
                 /\ top.val.num_keys = 1
                 /\ Len(top.val.children) = 2
                 /\ top.val.children[1] = old
                 /\ top.val.children[2] >= pager.page_count
                 /\ top.val.children[2] < new
                 /\ NodeAt(pager', top.val.children[2]).err = NoErr
                 /\ \A i \in 1..NodeAt(pager', old).val.num_keys :
                       U32Less(NodeAt(pager', old).val.keys[i], top.val.keys[1])
                 /\ \A i \in 1..NodeAt(pager', top.val.children[2]).val.num_keys :
                       ~U32Less(NodeAt(pager', top.val.children[2]).val.keys[i],
                                top.val.keys[1])
                 /\ pager'.file[1].root_page_id = new
                 /\ IsOk(back) /\ back.p.root_page_id = new]_vars

\* page id holds a leaf
IsLeafPage(p, id) ==
    /\ id > 0 /\ id < p.page_count /\ id < Len(p.file)
    /\ PageOf(p, id).kind = BTREE_PAGE_KIND
    /\ PageOf(p, id).body.node_kind = 1

\* the leaves of the tree
LeafPages(p) == {id \in TreePages(p) : IsLeafPage(p, id)}

\* next_leaf is followed from page current: the leaves visited, in order,
\* and where the walk stopped: 0 at the end of the chain, otherwise the id
\* that is out of range, not a leaf, or visited before
RECURSIVE ChainWalk(_, _, _)
ChainWalk(p, current, visited) ==
    IF current = 0 \/ ~IsLeafPage(p, current)
       \/ (\E i \in 1..Len(visited) : visited[i] = current)
    THEN [visited |-> visited, stop |-> current]
    ELSE ChainWalk(p, PageOf(p, current).body.next_leaf, Append(visited, current))

\* C24: after any sequence of inserts, following next_leaf from the
\* leftmost leaf visits every leaf of the tree exactly once and ends at a
\* leaf with next_leaf = 0: no cycle, every next_leaf below page_count,
\* every page visited a leaf.
C24_LeafChain ==
    open =>
       LET first == find_leftmost_leaf(pager, pager.root_page_id, pager.page_count, 0)
       IN  /\ IsOk(first)
           /\ LET walk == ChainWalk(pager, first.val, <<>>)
              IN  /\ walk.stop = 0
                  /\ {walk.visited[i] : i \in 1..Len(walk.visited)} = LeafPages(pager)

\* C25: in every state reachable through the API the root page id is in
\* [1, page_count) and the root page is a kind-2 page that decodes as a
\* B+-tree node; set_root_page_id with an id of 0 or >= page_count fails
\* and leaves the root unchanged.
C25_RootValid ==
    open =>
       /\ pager.root_page_id >= 1
       /\ pager.root_page_id < pager.page_count
       /\ PageOf(pager, pager.root_page_id).kind = BTREE_PAGE_KIND
       /\ NodeAt(pager, pager.root_page_id).err = NoErr
       /\ \A bad \in {0, pager.page_count, pager.page_count + 1} :
             LET r == set_root_page_id(pager, bad)
             IN  /\ r.err = E("Corruption", "header.root_page_id")
                 /\ r.p = pager

\* C30: if the process stops without a flush at any point after a
\* successful flush(), an open of the file that succeeds returns, for every
\* key and row that was stored at that flush, the value it had then.
C30_CrashKeepsFlushed ==
    [][(OpenAt(DbPath) /\ open' /\ synced # <<>>) =>
          /\ \A k \in CrashKeys :
                synced.vals[k] # None =>
                   LET g == get_u64(pager', k)
                   IN  IsOk(g) /\ g.val = synced.vals[k]
          /\ \A i \in DOMAIN synced.rows :
                synced.rows[i] # None =>
                   LET r == DbGetRowByPk(pager', log[i].table, log[i].pk)
                   IN  IsOk(r) /\ r.val = synced.rows[i]]_vars

\* the page count of the header on disk, the pager's page_count and the
\* length of the file in pages are the same number
PageCountAgrees(p) ==
    /\ p.file[1].page_count = p.page_count
    /\ file_page_count(p.file) = p.page_count
    /\ file_len(p.file) = p.page_count * PAGE_SIZE

\* an allocation of either kind returns the previous page_count and raises
\* page_count by one
AllocatesNext(p) ==
    \A r \in {allocate_btree_page(p), allocate_row_page(p)} :
       /\ IsOk(r)
       /\ r.val = p.page_count
       /\ r.p.page_count = p.page_count + 1
       /\ PageCountAgrees(r.p)

C28_SpecFormulas ==
    cap.step \in {"leaf", "internal"} /\ cap.page_bytes = PAGE_SIZE =>
       /\ cap.step = "leaf" => cap.keys = (PAGE_SIZE - 16 - 16 - 16) \div 12
       /\ cap.step = "internal" => cap.keys = (PAGE_SIZE - 16 - 16 - 20) \div 8
       /\ cap.end_offset <= cap.page_bytes

\* C28, amended: a leaf holds at most floor((page - 16 - 16) / 12) keys and
\* an internal node at most floor((page - 16 - 20) / 8) keys, which for the
\* page size of the format is 338 and 507; a node filled to that capacity
\* ends within the page, and one more key would not.
C28_Capacities ==
    cap.step \in {"leaf", "internal"} =>
       /\ cap.step = "leaf" => cap.keys = (cap.page_bytes - 16 - 16) \div 12
       /\ cap.step = "internal" => cap.keys = (cap.page_bytes - 16 - 20) \div 8
       /\ cap.end_offset <= cap.page_bytes
       /\ cap.next_end_offset > cap.page_bytes

\* a leaf of the page size of the format was filled to its capacity
C28_Witness ==
    /\ cap.step = "leaf"
    /\ cap.page_bytes = PAGE_SIZE
    /\ cap.keys = leaf_capacity(PAGE_SIZE)
    /\ cap.keys > (PAGE_SIZE - 16 - 16 - 16) \div 12

\* the child a descent for key takes: the first whose separator is greater
\* than the key, the last if there is none
FirstGreater(keys, key) ==
    IF \E i \in 1..Len(keys) : U32Less(key, keys[i])
    THEN CHOOSE i \in 1..Len(keys) :
             /\ U32Less(key, keys[i])
             /\ \A j \in 1..(i - 1) : ~U32Less(key, keys[j])
    ELSE Len(keys) + 1

\* what a descent for key from page id comes to, [err, val]: page 0 is
\* refused, a page the descent was on before is a cycle, which no descent
\* of 64 levels leaves, a node that does not decode is its error, and a leaf
\* is searched for the key
RECURSIVE DescentOutcome(_, _, _, _)
DescentOutcome(p, id, key, visited) ==
    IF id = 0 THEN [err |-> E("Corruption", "btree.traverse.header"), val |-> <<>>]
    ELSE IF id \in visited THEN [err |-> E("Corruption", "btree.depth"), val |-> <<>>]
    ELSE LET n == NodeAt(p, id)
         IN  IF n.err # NoErr THEN [err |-> n.err, val |-> <<>>]
             ELSE IF n.val.kind = "Leaf"
             THEN [err |-> NoErr,
                   val |-> IF \E i \in 1..Len(n.val.keys) : n.val.keys[i] = key
                           THEN Some(n.val.values[CHOOSE i \in 1..Len(n.val.keys) :
                                                      n.val.keys[i] = key])
                           ELSE None]
             ELSE DescentOutcome(p, n.val.children[FirstGreater(n.val.keys, key)], key,
                                 visited \cup {id})

\* the internal root of p has a child id that is 0
RootHasChildZero(p) == 0 \in ChildrenOf(p, p.root_page_id)

\* C29: search_u64 returns on every page graph, one whose root points at
\* itself included: it returns what the descent through the first child
\* whose separator is greater than the key (the last if none) comes to,
\* Corruption (btree.depth) when that descent is on a cycle, and Corruption
\* without reading page 0 when the root or the child id to follow is 0.
C29_SearchDescends ==
    open =>
       \A root \in {pager.root_page_id, 0}, k \in SearchKeys :
          LET r == search_u64(pager, root, k)
              want == DescentOutcome(pager, root, k, {})
          IN  /\ r.err = want.err
              /\ r.val = want.val
              /\ root = 0 => r.err = E("Corruption", "btree.traverse.header")
              /\ root # 0 /\ RootHasChildZero(pager) => r.err.kind = "Corruption"
              /\ 0 \in DOMAIN r.p.cache => 0 \in DOMAIN pager.cache

\* a search from a root whose second child is the root itself came back
\* with Corruption (btree.depth), and the pager still answers the same
C29_Witness ==
    /\ open
    /\ tamper = "child_cycle_2"
    /\ got.step = "searched"
    /\ got.root = pager.root_page_id
    /\ got.err = E("Corruption", "btree.depth")
    /\ search_u64(pager, got.root, got.key).err = got.err
    /\ \E k \in SearchKeys : search_u64(pager, pager.root_page_id, k).err = NoErr

\* the dirty pages of p are cached, and the cached pages that are not dirty
\* are the pages of the file
CacheCoherent(p) ==
    /\ p.dirty \subseteq DOMAIN p.cache
    /\ \A id \in (DOMAIN p.cache) \ p.dirty :
          id < Len(p.file) /\ p.cache[id] = p.file[id + 1]

\* C31: in every reachable pager state every page id of the dirty set has
\* an entry in the cache, and every cached page that is not in the dirty
\* set is byte-identical to that page of the file.
C31_CacheCoherent == open => CacheCoherent(pager)

\* what the read operations return on the pager p
ReadResults(p) ==
    {get_u64(p, k) : k \in MixKeys}
    \cup {DbGetRowByPk(p, name, pk) : name \in TableNames, pk \in ReadPks}
    \cup {DbScanTable(p, name) : name \in TableNames}
    \cup {[p |-> DbGetTable(p, name).p, err |-> NoErr, val |-> <<>>] : name \in TableNames}
    \cup {[p |-> DbListTables(p).p, err |-> NoErr, val |-> <<>>]}

\* the pager q is the pager p but for pages fetched from the file
ReadFrame(p, q) ==
    /\ q.dirty = p.dirty
    /\ q.page_count = p.page_count
    /\ q.root_page_id = p.root_page_id
    /\ q.version = p.version
    /\ q.file = p.file
    /\ \A id \in DOMAIN p.cache : id \in DOMAIN q.cache /\ q.cache[id] = p.cache[id]
    /\ \A id \in (DOMAIN q.cache) \ (DOMAIN p.cache) : q.cache[id] = p.file[id + 1]
    /\ read_catalog(q).err = read_catalog(p).err
    /\ read_catalog(q).val = read_catalog(p).val

\* C32: get_u64, get_row_by_pk, scan_table, get_table and list_tables
\* change nothing that is persisted: they add no page to the dirty set and
\* leave page_count, root_page_id, the catalog, the file and the bytes of
\* every cached page as they were.
C32_ReadsKeepState ==
    open => \A r \in ReadResults(pager) : ReadFrame(pager, r.p)

\* a row was read back while pages were dirty, and the read fetched a page
C32_Witness ==
    /\ open
    /\ got.step = "read"
    /\ got.op = "get_row_by_pk"
    /\ got.ok /\ got.loaded /\ got.dirty
    /\ pager.dirty # {}
    /\ Len(log) > 0

\* the errors of insert_row that its arguments cause
ArgumentErrors ==
    {E("InvalidArgument", "table"), E("InvalidArgument", "row"),
     E("InvalidArgument", "row.type"), E("InvalidArgument", "row.null"),
     E("Unsupported", "row.too_large")}

\* C33: an insert_row that fails because of its arguments (unknown table,
\* wrong number of values, value of another type than the column, Null in
\* a column that is not nullable, record longer than 3500 bytes) changes
\* nothing: the catalog with next_pk and last_row_page, page_count, the
\* dirty set, the file and every cached page are as before, so the next
\* insert returns what it would have returned without the failed one.
C33_FailedInsertKeepsState ==
    open =>
       \A name \in TableNames, row \in ArgRows :
          LET r == DbInsertRow(pager, name, row)
          IN  r.err \in ArgumentErrors =>
                 /\ ReadFrame(pager, r.p)
                 /\ \A next \in Rows :
                       LET after == DbInsertRow(r.p, name, next)
                           before == DbInsertRow(pager, name, next)
                       IN  after.err = before.err /\ after.val = before.val

\* inserts failed, one of them for a record that is too long, and a row
\* was inserted after the first row of its table
C33_Witness ==
    /\ open
    /\ "insert_row.too_large" \in failed
    /\ "other" \in failed
    /\ \E i \in 1..Len(log) : log[i].pk = 2

\* the keys stored on the leaves of the tree, counted leaf by leaf
RECURSIVE CountKeys(_, _)
CountKeys(p, leaves) ==
    IF leaves = {} THEN 0
    ELSE LET id == CHOOSE x \in leaves : TRUE
         IN  PageOf(p, id).body.num_keys + CountKeys(p, leaves \ {id})

\* next_leaf of every leaf of the tree
LeafLinks(p) == [id \in LeafPages(p) |-> PageOf(p, id).body.next_leaf]

\* q is p after the value of key on leaf page id was replaced by value:
\* the page differs in that value only and every other page is the same
ReplacedInPlace(p, q, id, key, value) ==
    /\ q.page_count = p.page_count
    /\ q.root_page_id = p.root_page_id
    /\ Len(q.file) = Len(p.file)
    /\ CountKeys(q, LeafPages(q)) = CountKeys(p, LeafPages(p))
    /\ LeafLinks(q) = LeafLinks(p)
    /\ \A other \in 1..(p.page_count - 1) :
          other # id /\ other < Len(p.file) => PageOf(q, other) = PageOf(p, other)
    /\ LET old == NodeAt(p, id).val
           new == NodeAt(q, id).val
       IN  /\ NodeAt(q, id).err = NoErr
           /\ new.keys = old.keys
           /\ new.next_leaf = old.next_leaf
           /\ \A i \in 1..Len(old.keys) :
                 new.values[i] = IF old.keys[i] = key THEN value ELSE old.values[i]

\* C34: put_u64 on a key that is already present replaces only that key's
\* value in place: the number of keys, page_count, root_page_id, the leaf
\* chain and the value of every other key are unchanged.
C34_OverwriteInPlace ==
    open =>
       \A k \in OverKeys, v \in PutVals :
          LET before == get_u64(pager, k)
          IN  (IsOk(before) /\ before.val # None) =>
                 LET r == put_u64(pager, k, v)
                 IN  /\ IsOk(r)
                     /\ ReplacedInPlace(pager, r.p,
                                        LeafIdFor(pager, pager.root_page_id, k, 0), k, v)
                     /\ \A k2 \in OverKeys :
                           /\ get_u64(r.p, k2).err = get_u64(pager, k2).err
                           /\ get_u64(r.p, k2).val =
                                 IF k2 = k THEN Some(v) ELSE get_u64(pager, k2).val

\* a key of a tree of several leaves was given a new value
C34_Witness ==
    /\ got.step = "overwrote" /\ got.ok /\ got.old # got.new
    /\ Cardinality(LeafPages(pager)) > 1
    /\ Cardinality(DOMAIN kv) > 2
    /\ get_u64(pager, got.key).val = Some(got.new)

\* the keys stored on the leaves below page id
RECURSIVE KeysUnder(_, _, _)
KeysUnder(p, id, depth) ==
    LET n == NodeAt(p, id)
    IN  IF depth > MAX_DEPTH \/ n.err # NoErr THEN {}
        ELSE IF n.val.kind = "Leaf"
        THEN {n.val.keys[i] : i \in 1..Len(n.val.keys)}
        ELSE UNION {KeysUnder(p, n.val.children[i], depth + 1) :
                       i \in 1..Len(n.val.children)}

\* the keys of internal node id separate the keys below its children
Separates(p, id) ==
    LET n == NodeAt(p, id)
    IN  (n.err = NoErr /\ n.val.kind = "Internal") =>
           \A i \in 1..Len(n.val.children) :
              \A k \in KeysUnder(p, n.val.children[i], 0) :
                 /\ i <= Len(n.val.keys) => U32Less(k, n.val.keys[i])
                 /\ i > 1 => ~U32Less(k, n.val.keys[i - 1])

\* the keys met on the leaves of a walk, in the order of the walk
RECURSIVE ChainKeys(_, _)
ChainKeys(p, visited) ==
    IF visited = <<>> THEN <<>>
    ELSE PageOf(p, Head(visited)).body.keys \o ChainKeys(p, Tail(visited))

\* C35: after any sequence of inserts every internal node separates its
\* subtrees: every key stored under child i is strictly less than keys[i]
\* and greater than or equal to keys[i-1], so the leaf reached by search for
\* a stored key is the leaf that holds it, and the keys met along the leaf
\* chain are strictly increasing.
C35_Separation ==
    open =>
       /\ \A id \in TreePages(pager) : Separates(pager, id)
       /\ \A k \in DOMAIN kv :
             LET id == LeafIdFor(pager, pager.root_page_id, k, 0)
             IN  id # 0 /\ KeyIndex(NodeAt(pager, id).val.keys, k) # {}
       /\ LET first == find_leftmost_leaf(pager, pager.root_page_id,
                                          pager.page_count, 0)
          IN  /\ IsOk(first)
              /\ validate_sorted_unique(
                     ChainKeys(pager, ChainWalk(pager, first.val, <<>>).visited))

\* free_offset of row page id
FreeOffsetOf(p, id) == PageOf(p, id).body.free_offset

\* append_row(p, last, bytes) places the record as C36 says
Placed(p, last, bytes) ==
    LET len == Len(bytes)
        full == last # 0 /\ 2 + len > PAGE_SIZE - FreeOffsetOf(p, last)
        allocated == last = 0 \/ full
        tail == IF allocated THEN p.page_count ELSE last
        f == IF allocated THEN 32 ELSE FreeOffsetOf(p, last)
        r == append_row(p, last, bytes)
        page == PageOf(r.p, tail)
        rd == read_row(r.p, r.val.ptr)
    IN  /\ IsOk(r)
        /\ r.p.page_count = p.page_count + (IF allocated THEN 1 ELSE 0)
        /\ r.val.last_row_page = tail
        /\ page.kind = ROW_PAGE_KIND
        /\ U16FromLe(<<RowByteAt(page.body, f), RowByteAt(page.body, f + 1)>>) = len
        /\ SubSeq(page.body.data, f - 29, f - 30 + len) = bytes
        /\ page.body.free_offset = f + 2 + len
        /\ r.val.ptr = [page_id |-> tail, offset |-> f + 2, len |-> len]
        /\ validate(r.val.ptr) = NoErr
        /\ IsOk(rd)
        /\ rd.val = bytes

\* every record of the lengths lens that append_row accepts is placed
PlacedAll(lens) ==
    open =>
       \A len \in lens :
          len <= ROW_MAX_LEN =>
             Placed(pager, StoreLast, RecordBytes(Len(StoreRecs) + 1, len))

\* C36: append_row places a record as follows: if the table has no tail
\* page (last_row_page = 0) or 2 + len > 4096 - free_offset of the tail page,
\* a fresh row page is allocated and becomes the tail; the u16 length is
\* written at the page's free_offset f and the bytes after it, free_offset
\* becomes f + 2 + len, and the returned pointer is (tail page id, f + 2,
\* len), which satisfies pointer validity and reads back the same bytes with
\* read_row.
C36_AppendPlaces == PlacedAll(TryLens)

\* the bytes of page id from offset from up to, not including, offset to
PageBytes(p, id, from, to) ==
    LET data == PageOf(p, id).body.data
    IN  [i \in 1..(to - from) |->
           IF from + i - 32 <= Len(data) THEN data[from + i - 32] ELSE 0]

\* the record of pointer ptr is on its page as append_row wrote it
Stored(p, ptr, bytes) ==
    PageBytes(p, ptr.page_id, ptr.offset - 2, ptr.offset + ptr.len)
       = U16ToLe(ptr.len) \o bytes

\* two records share no byte of a page
Apart(a, b) ==
    a.page_id = b.page_id =>
       a.offset + a.len <= b.offset - 2 \/ b.offset + b.len <= a.offset - 2

\* the row pages of a pager
RowPages(p) ==
    {id \in 1..(p.page_count - 1) : PageOf(p, id).kind = ROW_PAGE_KIND}

\* C37: stored rows are write-once: an append never changes the bytes of
\* any record stored earlier, no two records of a row page overlap, and a
\* row page's free_offset never decreases, so every row pointer handed out
\* earlier keeps reading the same bytes.
C37_WriteOnce ==
    open =>
       /\ \A i \in 1..Len(StoreRecs) :
             /\ Stored(pager, StoreRecs[i].ptr, StoreRecs[i].bytes)
             /\ StoreRecs[i].ptr.len > 0 =>
                   read_row(pager, StoreRecs[i].ptr).val = StoreRecs[i].bytes
             /\ \A j \in 1..Len(StoreRecs) :
                   i # j => Apart(StoreRecs[i].ptr, StoreRecs[j].ptr)
       /\ \A len \in TryLens :
             LET r == append_row(pager, StoreLast,
                                 RecordBytes(Len(StoreRecs) + 1, len))
             IN  /\ IsOk(r)
                 /\ \A id \in RowPages(pager) :
                       /\ id \in RowPages(r.p)
                       /\ FreeOffsetOf(r.p, id) >= FreeOffsetOf(pager, id)
                 /\ \A i \in 1..Len(StoreRecs) :
                       /\ Stored(r.p, StoreRecs[i].ptr, StoreRecs[i].bytes)
                       /\ Apart(StoreRecs[i].ptr, r.val.ptr)
                       /\ read_row(r.p, StoreRecs[i].ptr).err
                             = read_row(pager, StoreRecs[i].ptr).err
                       /\ read_row(r.p, StoreRecs[i].ptr).val
                             = read_row(pager, StoreRecs[i].ptr).val

\* three records were appended: two share a page and one is on another
C37_Witness ==
    /\ got.step = "rows"
    /\ Len(got.recs) = 3
    /\ got.recs[1].ptr.page_id = got.recs[2].ptr.page_id
    /\ got.recs[2].ptr.len > 0
    /\ got.recs[3].ptr.page_id # got.recs[1].ptr.page_id
    /\ read_row(pager, got.recs[1].ptr).val = got.recs[1].bytes

\* C38: the pk counter is overflow-checked: when a table's next_pk is
\* u32::MAX, insert_row returns Overflow without wrapping, the stored
\* next_pk stays u32::MAX, no row is appended and no tree entry is added;
\* an insert that succeeds returns the counter and stores a larger one, so
\* no pk is assigned twice by wrap-around.
C38_PkOverflowChecked ==
    open =>
       LET t == DbGetTable(pager, "a")
       IN  (IsOk(t) /\ t.val # None) =>
              LET was == t.val[1].next_pk
                  r == DbInsertRow(pager, "a", RowU32(7))
                  now == DbGetTable(r.p, "a").val[1].next_pk
              IN  /\ was = U32_MAX =>
                        /\ r.err = E("Overflow", "table.next_pk")
                        /\ ReadFrame(pager, r.p)
                        /\ now = U32_MAX
                  /\ was # U32_MAX =>
                        /\ IsOk(r)
                        /\ r.val = was
                        /\ U32Less(was, now)

\* the row of pk u32::MAX - 1 was inserted and the insert after it was
\* refused
C38_Witness ==
    /\ got.step = "inserted"
    /\ got.err = E("Overflow", "table.next_pk")
    /\ got.was = U32_MAX
    /\ get_u64(pager, composite_key_u32(ToU32(1), <<65535, 65534>>)).val # None
    /\ DbGetTable(pager, "a").val[1].next_pk = U32_MAX

\* the pk that composite_key(table_id, pk) = key was made of: each step of
\* the mix undone, last step first
MIX_MUL_2_INV == <<41214, 15311>>
MIX_PK_SUB == <<15693, 20939>>
pk_of_key(table_id, key) ==
    LET x3 == WrappingMul32(XorShr16(key), MIX_MUL_2_INV)
        x2 == WrappingMul32(Xor32(table_id, MIX_TABLE_XOR), MIX_MUL_1)
    IN  WrappingAdd32(Xor32(x3, x2), MIX_PK_SUB)

\* C39: for a fixed table_id composite_key(table_id, pk) is injective in
\* pk: the pk is recovered from the key, two different pks of a table never
\* have the same key, and an insert into a table never replaces the tree
\* entry of another row of that table.
C39_KeyInjective ==
    /\ cap.step = "key" =>
          /\ pk_of_key(ToU32(cap.table), cap.key) = cap.pk
          /\ \A pk \in KeyPks :
                pk # cap.pk => composite_key_u32(ToU32(cap.table), pk) # cap.key
    /\ open =>
          LET t == DbGetTable(pager, "a")
          IN  (IsOk(t) /\ t.val # None) =>
                 LET r == DbInsertRow(pager, "a", RowU32(7))
                     tid == ToU32(t.val[1].id)
                 IN  IsOk(r) =>
                        \A pk \in {ToU32(1), ToU32(2), ToU32(3)} \cup HighPks :
                           pk # r.val =>
                              get_u64(r.p, composite_key_u32(tid, pk)).val
                                 = get_u64(pager, composite_key_u32(tid, pk)).val

\* a key was made of a pk above 2^31, and the rows 1 and u32::MAX - 1 of the
\* table are in the tree
C39_Witness ==
    /\ cap.step = "key" /\ cap.pk[1] >= 32768
    /\ got.step = "inserted" /\ got.err = NoErr /\ got.pk = <<65535, 65534>>
    /\ get_u64(pager, composite_key_u32(ToU32(1), ToU32(1))).val # None
    /\ get_u64(pager, composite_key_u32(ToU32(1), <<65535, 65534>>)).val # None

====
